---- MODULE Spec2Model ----
(***************************************************************************)
(* DC microgrid simulation engine and AI protection pipeline.              *)
(*                                                                         *)
(* Python floats are modelled as exact rationals [n |-> numerator,         *)
(* d |-> denominator] in lowest terms with d > 0, so the arithmetic of the *)
(* component models is the arithmetic of the reals; binary rounding is not *)
(* modelled.                                                               *)
(***************************************************************************)
EXTENDS Integers, Sequences, FiniteSets, TLC

VARIABLES
    config,          \* DCMicrogrid.config (immutable after construction)
    battery,         \* the BatteryStorage object (parameters, soc, cycle_count)
    current_voltage, \* DCMicrogrid.current_voltage
    grid_connected,  \* DCMicrogrid.grid_connected
    metrics,         \* DCMicrogrid.metrics
    power_balance,   \* the dict returned by the last calculate_power_balance
    i,               \* number of ticks of the simulation loop performed
    detector,        \* the FaultDetector object (threshold, scaler)
    call,            \* the last direct call of a component method and its result
    ncalls,          \* number of direct calls performed
    stability,       \* outcome of the last check_system_stability
    anomaly_detector, \* the AnomalyDetector object (fitted or not)
    relay,           \* the AdaptiveRelayCoordinator object
    pc,              \* the statement of run_simulation's loop body to run next
    results          \* run_simulation's results dict of per-tick lists

vars == <<config, battery, current_voltage, grid_connected, metrics,
          power_balance, i, detector, call, ncalls, stability,
          anomaly_detector, relay, pc, results>>

-----------------------------------------------------------------------------
(* Bounds of the model *)

\* direct calls of coordinator methods explored
MaxRelayCalls == 2
\* samples in a batch given to AnomalyDetector.predict
MaxBatch == 2
\* anomaly scores explored: -MaxScoreTenths/10 .. 0 in steps of 0.1
MaxScoreTenths == 6

\* ticks of the simulation loop explored
MaxTicks == 2
\* direct charge/discharge calls explored
MaxCalls == 2
\* requested battery powers explored: 0, 10, ..., 10 * MaxPowerStep kW
MaxPowerStep == 7
\* irradiances explored: -100, 0, ..., 100 * MaxIrradianceStep W/m^2
MaxIrradianceStep == 12
\* temperatures explored: -25, 0, ..., 25 * MaxTemperatureStep degrees C
MaxTemperatureStep == 12
\* wind speeds explored: 0, 0.5, ..., MaxWindHalfSteps / 2 m/s
MaxWindHalfSteps == 60
\* class probabilities explored: multiples of 1 / ProbSteps
ProbSteps == 3

-----------------------------------------------------------------------------
(* Exact rational arithmetic *)

Abs(x) == IF x < 0 THEN -x ELSE x

RECURSIVE GCD(_, _)
GCD(a, b) == IF b = 0 THEN a ELSE GCD(b, a % b)

Rat(n, d) ==
    LET g == GCD(Abs(n), Abs(d))
        s == IF d < 0 THEN -1 ELSE 1
    IN  [n |-> (s * n) \div g, d |-> (s * d) \div g]

Int2Rat(k) == [n |-> k, d |-> 1]
Zero == Int2Rat(0)
One == Int2Rat(1)

RNeg(a) == [n |-> -a.n, d |-> a.d]

RAdd(a, b) ==
    LET g == GCD(a.d, b.d)
    IN  Rat(a.n * (b.d \div g) + b.n * (a.d \div g), (a.d \div g) * b.d)

RSub(a, b) == RAdd(a, RNeg(b))

RMul(a, b) ==
    LET g1 == GCD(Abs(a.n), b.d)
        g2 == GCD(Abs(b.n), a.d)
    IN  Rat((a.n \div g1) * (b.n \div g2), (a.d \div g2) * (b.d \div g1))

\* b # 0
RDiv(a, b) == RMul(a, Rat(b.d, b.n))

RLt(a, b) ==
    LET g == GCD(a.d, b.d)
    IN  a.n * (b.d \div g) < b.n * (a.d \div g)

RLe(a, b) == ~RLt(b, a)

\* Python min(a, b): b only when b < a
RMin(a, b) == IF RLt(b, a) THEN b ELSE a

RAbs(a) == [n |-> Abs(a.n), d |-> a.d]

-----------------------------------------------------------------------------
(* BatteryStorage *)

\* BatteryStorage.__init__ with the documented defaults; initial_soc is given
BatteryStorage(initial_soc) ==
    [capacity           |-> Int2Rat(100),
     max_charge_rate    |-> Int2Rat(50),
     max_discharge_rate |-> Int2Rat(50),
     efficiency         |-> Rat(9, 10),
     min_soc            |-> Rat(1, 5),
     max_soc            |-> Rat(19, 20),
     soc                |-> initial_soc,
     cycle_count        |-> Zero]

\* charge without the SOC limit of lines 163-165
charge_unclamped(b, power, dt) ==
    LET actual_power == RMin(power, b.max_charge_rate)
        energy == RMul(RMul(actual_power, dt), b.efficiency)
        new_soc == RAdd(b.soc, RDiv(energy, b.capacity))
    IN  [actual_power |-> actual_power,
         battery |-> [b EXCEPT !.soc = new_soc]]

\* charge that clips the SOC but returns the rate-limited power unchanged
charge_clip_only(b, power, dt) ==
    LET actual_power == RMin(power, b.max_charge_rate)
        energy == RMul(RMul(actual_power, dt), b.efficiency)
        new_soc == RAdd(b.soc, RDiv(energy, b.capacity))
        over == RLt(b.max_soc, new_soc)
    IN  [actual_power |-> actual_power,
         battery |-> [b EXCEPT !.soc = IF over THEN b.max_soc ELSE new_soc]]

\* BatteryStorage.charge: returns (actual_power, self.soc) and the mutated object
charge(b, power, dt) ==
    LET limited == RMin(power, b.max_charge_rate)
        energy == RMul(RMul(limited, dt), b.efficiency)
        new_soc == RAdd(b.soc, RDiv(energy, b.capacity))
        over == RLt(b.max_soc, new_soc)
        actual_power ==
            IF over
            THEN RDiv(RMul(RSub(b.max_soc, b.soc), b.capacity),
                      RMul(dt, b.efficiency))
            ELSE limited
    IN  [actual_power |-> actual_power,
         battery |-> [b EXCEPT !.soc = IF over THEN b.max_soc ELSE new_soc]]

\* discharge without the rate limit of line 182
discharge_unlimited(b, power, dt) ==
    LET energy == RDiv(RMul(power, dt), b.efficiency)
        new_soc == RSub(b.soc, RDiv(energy, b.capacity))
        under == RLt(new_soc, b.min_soc)
        actual_power ==
            IF under
            THEN RDiv(RMul(RMul(RSub(b.soc, b.min_soc), b.capacity), b.efficiency), dt)
            ELSE power
    IN  [actual_power |-> actual_power,
         battery |-> [b EXCEPT !.soc = IF under THEN b.min_soc ELSE new_soc,
                               !.cycle_count = RAdd(@, RDiv(dt, Int2Rat(2)))]]

\* discharge that clips the SOC but returns the rate-limited power unchanged
discharge_clip_only(b, power, dt) ==
    LET limited == RMin(power, b.max_discharge_rate)
        energy == RDiv(RMul(limited, dt), b.efficiency)
        new_soc == RSub(b.soc, RDiv(energy, b.capacity))
        under == RLt(new_soc, b.min_soc)
    IN  [actual_power |-> limited,
         battery |-> [b EXCEPT !.soc = IF under THEN b.min_soc ELSE new_soc,
                               !.cycle_count = RAdd(@, RDiv(dt, Int2Rat(2)))]]

\* discharge that counts a half cycle only when power is delivered
discharge_counts_delivered(b, power, dt) ==
    LET limited == RMin(power, b.max_discharge_rate)
        energy == RDiv(RMul(limited, dt), b.efficiency)
        new_soc == RSub(b.soc, RDiv(energy, b.capacity))
        under == RLt(new_soc, b.min_soc)
        actual_power ==
            IF under
            THEN RDiv(RMul(RMul(RSub(b.soc, b.min_soc), b.capacity), b.efficiency), dt)
            ELSE limited
    IN  [actual_power |-> actual_power,
         battery |-> [b EXCEPT !.soc = IF under THEN b.min_soc ELSE new_soc,
                               !.cycle_count =
                                  IF RLt(Zero, actual_power)
                                  THEN RAdd(@, RDiv(dt, Int2Rat(2))) ELSE @]]

\* BatteryStorage.discharge: returns (actual_power, self.soc) and the mutated object
discharge(b, power, dt) ==
    LET limited == RMin(power, b.max_discharge_rate)
        energy == RDiv(RMul(limited, dt), b.efficiency)
        new_soc == RSub(b.soc, RDiv(energy, b.capacity))
        under == RLt(new_soc, b.min_soc)
        actual_power ==
            IF under
            THEN RDiv(RMul(RMul(RSub(b.soc, b.min_soc), b.capacity), b.efficiency), dt)
            ELSE limited
    IN  [actual_power |-> actual_power,
         battery |-> [b EXCEPT !.soc = IF under THEN b.min_soc ELSE new_soc,
                               !.cycle_count = RAdd(@, RDiv(dt, Int2Rat(2)))]]

-----------------------------------------------------------------------------
(* PVSystem *)

\* PVSystem.__init__ with the documented defaults
PVSystem(rated) ==
    [rated_power      |-> Int2Rat(rated),
     efficiency       |-> Rat(18, 100),
     temp_coefficient |-> Rat(-4, 1000),
     panel_area       |-> Int2Rat(278),
     reference_temp   |-> Int2Rat(25)]

\* PVSystem.calculate_power
PV_calculate_power(pv, irradiance, temperature) ==
    LET temp_factor ==
            RAdd(One, RMul(pv.temp_coefficient, RSub(temperature, pv.reference_temp)))
        power ==
            RMul(RMul(RMul(RDiv(irradiance, Int2Rat(1000)), pv.panel_area),
                      pv.efficiency), temp_factor)
    IN  RMin(power, pv.rated_power)

-----------------------------------------------------------------------------
(* WindTurbine *)

\* np.pi, as the rational 355/113 (relative error below 1e-7)
Pi == Rat(355, 113)

\* WindTurbine.__init__: the documented defaults, rated power and rotor given
WindTurbine(rated, diameter) ==
    [rated_power       |-> Int2Rat(rated),
     cut_in_speed      |-> Int2Rat(3),
     rated_speed       |-> Int2Rat(12),
     cut_out_speed     |-> Int2Rat(25),
     rotor_diameter    |-> Int2Rat(diameter),
     air_density       |-> Rat(1225, 1000),
     power_coefficient |-> Rat(4, 10)]

\* the cubic branch of calculate_power, lines 99-102, in kW
Wind_cubic_kw(wt, wind_speed) ==
    LET radius == RDiv(wt.rotor_diameter, Int2Rat(2))
        swept_area == RMul(Pi, RMul(radius, radius))
        power ==
            RMul(RMul(RMul(RMul(Rat(1, 2), wt.air_density), swept_area),
                      wt.power_coefficient),
                 RMul(RMul(wind_speed, wind_speed), wind_speed))
    IN  RDiv(power, Int2Rat(1000))

\* calculate_power testing the rated speed before the cut-out speed
Wind_calculate_power_rated_first(wt, wind_speed) ==
    IF RLe(wt.rated_speed, wind_speed)
    THEN wt.rated_power
    ELSE IF RLt(wind_speed, wt.cut_in_speed) \/ RLt(wt.cut_out_speed, wind_speed)
         THEN Zero
         ELSE RMin(Wind_cubic_kw(wt, wind_speed), wt.rated_power)

\* calculate_power with the boundary speeds on the non-producing side and
\* without the final limit to rated power
Wind_calculate_power_exclusive(wt, wind_speed) ==
    IF RLe(wind_speed, wt.cut_in_speed) \/ RLe(wt.cut_out_speed, wind_speed)
    THEN Zero
    ELSE IF RLt(wt.rated_speed, wind_speed)
         THEN wt.rated_power
         ELSE Wind_cubic_kw(wt, wind_speed)

\* WindTurbine.calculate_power
Wind_calculate_power(wt, wind_speed) ==
    IF RLt(wind_speed, wt.cut_in_speed) \/ RLt(wt.cut_out_speed, wind_speed)
    THEN Zero
    ELSE IF RLe(wt.rated_speed, wind_speed)
         THEN wt.rated_power
         ELSE RMin(Wind_cubic_kw(wt, wind_speed), wt.rated_power)

-----------------------------------------------------------------------------
(* Load *)

\* Load.__init__
Load(power, priority) ==
    [power              |-> Int2Rat(power),
     priority           |-> priority,
     power_factor       |-> Rat(95, 100),
     voltage_dependency |-> Rat(3, 2)]

\* x ** y (y > 0) for the two bases whose power is rational whatever y is
RPow(x, y) == CASE x = One -> One [] x = Zero -> Zero

\* Load.calculate_power
Load_calculate_power(load, voltage, base_voltage) ==
    LET voltage_ratio == RDiv(voltage, base_voltage)
    IN  RMul(load.power, RPow(voltage_ratio, load.voltage_dependency))
-----------------------------------------------------------------------------
(* FaultDetector *)

\* self.fault_types
fault_types ==
    <<"no_fault", "short_circuit", "open_circuit", "ground_fault",
      "overcurrent", "undervoltage", "overvoltage">>

\* FaultDetector.__init__: the scaler starts as None, modelled as <<>>
FaultDetector(confidence_threshold) ==
    [sequence_length      |-> 100,
     confidence_threshold |-> confidence_threshold,
     scaler               |-> <<>>]

DefaultDetector == FaultDetector(Rat(85, 100))

\* preprocess_data that fits the scaler on every window
preprocess_data_refits(det, window) == [det EXCEPT !.scaler = <<window>>]

\* FaultDetector.preprocess_data: the scaler after the call; a scaler is
\* identified by the number of samples it was fitted on, and <<0>> is a
\* StandardScaler object that was created (line 119) but never fitted
preprocess_data(det, window) ==
    IF det.scaler = <<>> THEN [det EXCEPT !.scaler = <<window>>] ELSE det

\* the exception preprocess_data lets through, "none" if it returns:
\* StandardScaler.fit_transform and transform reject an array with no sample
\* (ValueError), transform rejects a scaler that was never fitted
\* (NotFittedError)
preprocess_raises(det, window) ==
    CASE det.scaler = <<0>> -> "NotFittedError"
      [] det.scaler # <<0>> /\ window = 0 -> "ValueError"
      [] OTHER -> "none"

\* np.argmax: the first (0-based) index of the largest entry
ArgMax(p) ==
    CHOOSE k \in 0..(Len(p) - 1) :
        /\ \A j \in 0..(Len(p) - 1) : RLe(p[j + 1], p[k + 1])
        /\ \A j \in 0..(k - 1) : RLt(p[j + 1], p[k + 1])

\* the gate with a strict comparison against the threshold
FaultGate_strict(fault_idx, confidence, confidence_threshold) ==
    fault_idx # 0 /\ RLt(confidence_threshold, confidence)

\* the two-part gate of detect_fault, lines 180-183
FaultGate(fault_idx, confidence, confidence_threshold) ==
    fault_idx # 0 /\ RLe(confidence_threshold, confidence)

\* the result of detect_fault for a window too short, lines 165-171
InsufficientData ==
    [fault_detected |-> FALSE,
     fault_type     |-> "no_fault",
     confidence     |-> Zero,
     message        |-> "Insufficient data for detection"]

\* the result of detect_fault from the model's class probabilities, lines 176-193
FaultResult(det, predictions) ==
    LET fault_idx == ArgMax(predictions)
        confidence == predictions[fault_idx + 1]
    IN  [fault_detected |-> FaultGate(fault_idx, confidence, det.confidence_threshold),
         fault_type     |-> fault_types[fault_idx + 1],
         confidence     |-> confidence,
         all_probabilities |->
            [t \in {fault_types[k] : k \in 1..Len(fault_types)} |->
                predictions[CHOOSE k \in 1..Len(fault_types) : fault_types[k] = t]]]

-----------------------------------------------------------------------------
(* DCMicrogrid *)

\* the configuration document: sections and keys read by the engine
Config(pv_enabled, wind_enabled, bess_enabled, initial_soc, load_powers) ==
    [system       |-> [voltage_level |-> Int2Rat(400), frequency |-> Zero],
     photovoltaic |-> [enabled |-> pv_enabled, rated_power |-> 50],
     wind_turbine |-> [enabled |-> wind_enabled, rated_power |-> 30,
                       rotor_diameter |-> 8],
     bess         |-> [enabled |-> bess_enabled, initial_soc |-> initial_soc],
     loads        |-> <<Load(load_powers[1], 1), Load(load_powers[2], 2)>>,
     protection   |-> [undervoltage_threshold |-> Rat(9, 10),
                       overvoltage_threshold  |-> Rat(11, 10),
                       overcurrent_threshold  |-> Rat(3, 2),
                       ai_protection_enabled  |-> TRUE]]

\* DCMicrogrid._initialize_components: the immutable component objects
pv_system == PVSystem(config.photovoltaic.rated_power)
wind_turbine ==
    WindTurbine(config.wind_turbine.rated_power, config.wind_turbine.rotor_diameter)
loads == config.loads
voltage_level == config.system.voltage_level

\* self.metrics as set by __init__ and reset_metrics
InitialMetrics ==
    [energy_generated   |-> Zero,
     energy_consumed    |-> Zero,
     energy_stored      |-> Zero,
     energy_losses      |-> Zero,
     reliability_events |-> <<>>]

\* sum(load.calculate_power(current_voltage, voltage_level) for load in loads)
RECURSIVE SumLoads(_, _, _)
SumLoads(ls, voltage, base_voltage) ==
    IF ls = <<>>
    THEN Zero
    ELSE RAdd(Load_calculate_power(Head(ls), voltage, base_voltage),
              SumLoads(Tail(ls), voltage, base_voltage))

\* the battery operation with a zero deficit sent to discharge
BatteryOperation_discharge_on_zero(b, enabled, power_deficit, dt) ==
    IF ~enabled
    THEN [battery_power |-> Zero, battery_soc |-> Zero, battery |-> b]
    ELSE IF RLe(Zero, power_deficit)
         THEN LET r == discharge(b, power_deficit, dt)
              IN  [battery_power |-> r.actual_power,
                   battery_soc   |-> r.battery.soc,
                   battery       |-> r.battery]
         ELSE LET r == charge(b, RNeg(power_deficit), dt)
              IN  [battery_power |-> r.actual_power,
                   battery_soc   |-> r.battery.soc,
                   battery       |-> r.battery]

\* the battery operation of calculate_power_balance, lines 111-121:
\* the battery power and SOC reported, and the battery object afterwards
BatteryOperation(b, enabled, power_deficit, dt) ==
    IF ~enabled
    THEN [battery_power |-> Zero, battery_soc |-> Zero, battery |-> b]
    ELSE IF RLt(Zero, power_deficit)
         THEN LET r == discharge(b, power_deficit, dt)
              IN  [battery_power |-> r.actual_power,
                   battery_soc   |-> r.battery.soc,
                   battery       |-> r.battery]
         ELSE IF RLt(power_deficit, Zero)
              THEN LET r == charge(b, RNeg(power_deficit), dt)
                   IN  [battery_power |-> r.actual_power,
                        battery_soc   |-> r.battery.soc,
                        battery       |-> r.battery]
              ELSE [battery_power |-> Zero, battery_soc |-> b.soc, battery |-> b]

\* the tick with the battery energy also accumulated in energy_stored
PowerBalance_tracks_stored(irradiance, temperature, wind_speed, dt) ==
    LET pv_power ==
            IF config.photovoltaic.enabled
            THEN PV_calculate_power(pv_system, irradiance, temperature)
            ELSE Zero
        wind_power ==
            IF config.wind_turbine.enabled
            THEN Wind_calculate_power(wind_turbine, wind_speed)
            ELSE Zero
        total_generation == RAdd(pv_power, wind_power)
        total_load == SumLoads(loads, current_voltage, voltage_level)
        power_deficit == RSub(total_load, total_generation)
        op == BatteryOperation(battery, config.bess.enabled, power_deficit, dt)
        net_power == RSub(RAdd(total_generation, op.battery_power), total_load)
    IN  [result |->
            [pv_power         |-> pv_power,
             wind_power       |-> wind_power,
             total_generation |-> total_generation,
             total_load       |-> total_load,
             battery_power    |-> op.battery_power,
             battery_soc      |-> op.battery_soc,
             net_power        |-> net_power,
             voltage          |-> current_voltage,
             power_deficit    |-> power_deficit],
         battery |-> op.battery,
         metrics |->
            [metrics EXCEPT
                !.energy_generated = RAdd(@, RMul(total_generation, dt)),
                !.energy_consumed  = RAdd(@, RMul(total_load, dt)),
                !.energy_stored    = RAdd(@, RMul(op.battery_power, dt))]]

\* DCMicrogrid.calculate_power_balance: the returned dict and the objects mutated
PowerBalance(irradiance, temperature, wind_speed, dt) ==
    LET pv_power ==
            IF config.photovoltaic.enabled
            THEN PV_calculate_power(pv_system, irradiance, temperature)
            ELSE Zero
        wind_power ==
            IF config.wind_turbine.enabled
            THEN Wind_calculate_power(wind_turbine, wind_speed)
            ELSE Zero
        total_generation == RAdd(pv_power, wind_power)
        total_load == SumLoads(loads, current_voltage, voltage_level)
        power_deficit == RSub(total_load, total_generation)
        op == BatteryOperation(battery, config.bess.enabled, power_deficit, dt)
        net_power == RSub(RAdd(total_generation, op.battery_power), total_load)
    IN  [result |->
            [pv_power         |-> pv_power,
             wind_power       |-> wind_power,
             total_generation |-> total_generation,
             total_load       |-> total_load,
             battery_power    |-> op.battery_power,
             battery_soc      |-> op.battery_soc,
             net_power        |-> net_power,
             voltage          |-> current_voltage,
             power_deficit    |-> power_deficit],
         battery |-> op.battery,
         metrics |->
            [metrics EXCEPT
                !.energy_generated = RAdd(@, RMul(total_generation, dt)),
                !.energy_consumed  = RAdd(@, RMul(total_load, dt))]]

-----------------------------------------------------------------------------
(* AnomalyDetector *)

\* AnomalyDetector.__init__: a StandardScaler and a model, neither fitted
\* yet; offset_ is the score below which the fitted model labels a sample an
\* anomaly (model.predict is -1 iff model.score_samples < model.offset_)
AnomalyDetector == [algorithm |-> "IsolationForest", fitted |-> FALSE, offset_ |-> Zero]

\* dict.get(key, default)
Get(d, key, default) == IF key \in DOMAIN d THEN d[key] ELSE default

\* np.min
NpMin(scores) ==
    CHOOSE m \in {scores[k] : k \in 1..Len(scores)} :
        \A k \in 1..Len(scores) : RLe(m, scores[k])

\* the severity levels with the cutoffs themselves in the more severe level
_calculate_severity_inclusive(scores) ==
    LET min_score == NpMin(scores)
    IN  IF RLe(min_score, Rat(-5, 10)) THEN "critical"
        ELSE IF RLe(min_score, Rat(-3, 10)) THEN "high"
        ELSE IF RLe(min_score, Rat(-1, 10)) THEN "medium"
        ELSE "low"

\* AnomalyDetector._calculate_severity
_calculate_severity(scores) ==
    LET min_score == NpMin(scores)
    IN  IF RLt(min_score, Rat(-5, 10)) THEN "critical"
        ELSE IF RLt(min_score, Rat(-3, 10)) THEN "high"
        ELSE IF RLt(min_score, Rat(-1, 10)) THEN "medium"
        ELSE "low"

\* AnomalyDetector.predict on a fitted detector, given what
\* model.score_samples returns for the batch
predict(det, scores) ==
    LET predictions ==
            [k \in 1..Len(scores) |-> IF RLt(scores[k], det.offset_) THEN -1 ELSE 1]
        anomaly_indices ==
            SelectSeq([k \in 1..Len(predictions) |-> k - 1],
                      LAMBDA x : predictions[x + 1] = -1)
        n_anomalies == Len(anomaly_indices)
    IN  [anomalies_detected |-> n_anomalies > 0,
         n_anomalies        |-> n_anomalies,
         anomaly_indices    |-> anomaly_indices,
         anomaly_scores     |-> scores,
         severity           |-> _calculate_severity(scores)]

\* AnomalyDetector._extract_cyber_features: one row of six features
_extract_cyber_features(network_data) ==
    <<Get(network_data, "packet_rate", Zero),
      Get(network_data, "connection_count", Zero),
      Get(network_data, "failed_login_attempts", Zero),
      Get(network_data, "cpu_usage", Zero),
      Get(network_data, "memory_usage", Zero),
      Get(network_data, "command_frequency", Zero)>>

\* the classification with the packet-rate rule only, the other rules lost
_classify_attack_types_ddos_only(features) ==
    IF RLt(Int2Rat(1000), features[1]) THEN <<"DDoS">> ELSE <<"Unknown">>

\* AnomalyDetector._classify_attack_types (features[0, k] is features[k + 1])
_classify_attack_types(features) ==
    LET attack_types ==
            (IF RLt(Int2Rat(1000), features[1]) THEN <<"DDoS">> ELSE <<>>)
            \o (IF RLt(Int2Rat(5), features[3]) THEN <<"Brute Force">> ELSE <<>>)
            \o (IF RLt(Int2Rat(100), features[6]) THEN <<"Command Injection">> ELSE <<>>)
    IN  IF attack_types = <<>> THEN <<"Unknown">> ELSE attack_types

\* AnomalyDetector.detect_cyber_attacks on a fitted detector
detect_cyber_attacks(det, network_data, score) ==
    LET features == _extract_cyber_features(network_data)
        result == predict(det, <<score>>)
    IN  IF result.anomalies_detected
        THEN [k \in DOMAIN result \cup {"potential_attacks"} |->
                 IF k = "potential_attacks" THEN _classify_attack_types(features)
                 ELSE result[k]]
        ELSE result

-----------------------------------------------------------------------------
(* AdaptiveRelayCoordinator *)

\* self.action_size: trip relay 1, trip relay 2, adjust settings, monitor
action_size == 4
Actions == 0..(action_size - 1)

\* self.batch_size
batch_size == 32

\* deque(maxlen=2000)
memory_maxlen == 2000

\* the state vector of a system whose every quantity is zero
ZeroState == <<Zero, Zero, Zero, Zero, Zero, Zero, Zero, Zero>>

\* get_state on a dict without any key: the defaults 380 V, 0 A, 0 kW,
\* soc 0.5, no fault, noon, priority 0.5
DefaultState == <<One, Zero, Zero, Rat(1, 2), Zero, Zero, Rat(1, 2), Rat(1, 2)>>

StateSpace == {ZeroState, DefaultState}

\* action values the network is taken to output: all equal, a single
\* maximum away from index 0, and a tie between indices 1 and 3
QVectors ==
    {<<Zero, Zero, Zero, Zero>>,
     <<Zero, Zero, One, Zero>>,
     <<Rat(-1, 2), Rat(1, 2), Zero, Rat(1, 2)>>}

\* the weights of the network, identified by the function they compute on
\* the states explored
Models == [StateSpace -> QVectors]

\* _build_model: Dense layers with randomly initialised kernels and zero
\* biases; the ReLU/linear stack maps the zero vector to zeros, any other
\* state to values that depend on the random kernels
FreshModels == {m \in Models : m[ZeroState] = <<Zero, Zero, Zero, Zero>>}

\* AdaptiveRelayCoordinator.__init__; update_target_model copies the weights
AdaptiveRelayCoordinator(epsilon, model) ==
    [learning_rate   |-> Rat(1, 1000),
     discount_factor |-> Rat(95, 100),
     epsilon         |-> epsilon,
     epsilon_decay   |-> Rat(995, 1000),
     epsilon_min     |-> Rat(1, 100),
     memory          |-> <<>>,
     model           |-> model,
     target_model    |-> model]

DefaultCoordinator ==
    AdaptiveRelayCoordinator(Rat(1, 10), CHOOSE m \in FreshModels : TRUE)

\* AdaptiveRelayCoordinator.get_state: the normalised 8-dimensional vector
get_state(system_data) ==
    <<RDiv(Get(system_data, "voltage", Int2Rat(380)), Int2Rat(380)),
      RDiv(Get(system_data, "current", Zero), Int2Rat(100)),
      RDiv(Get(system_data, "power", Zero), Int2Rat(100)),
      Get(system_data, "battery_soc", Rat(1, 2)),
      Get(system_data, "fault_severity", Zero),
      Get(system_data, "fault_location", Zero),
      RDiv(Get(system_data, "time_of_day", Int2Rat(12)), Int2Rat(24)),
      Get(system_data, "load_priority", Rat(1, 2))>>

\* the selection with the training flag ignored: it explores whenever the
\* draw is below epsilon
select_action_always_explores(r, state, training, u, k) ==
    IF RLt(u, r.epsilon) THEN k ELSE ArgMax(r.model[state])

\* AdaptiveRelayCoordinator.select_action; u is what random.random() would
\* return and k what random.randrange(action_size) would return
select_action(r, state, training, u, k) ==
    IF training /\ RLt(u, r.epsilon) THEN k ELSE ArgMax(r.model[state])

\* remember on a plain list, without the bound of the deque
remember_unbounded(r, experience) ==
    [r EXCEPT !.memory = Append(r.memory, experience)]

\* AdaptiveRelayCoordinator.remember: append to a deque of bounded length
remember(r, experience) ==
    [r EXCEPT !.memory =
        IF Len(r.memory) = memory_maxlen
        THEN Append(Tail(r.memory), experience)
        ELSE Append(r.memory, experience)]

\* np.max
NpMax(q) == q[ArgMax(q) + 1]

\* the regression target replay builds for one sampled experience, lines
\* 150-162: the online model's values at the state, with the entry of the
\* action taken replaced by the reward (done) or by the reward plus the
\* discounted best value of the target model at the next state
replay_target(r, e) ==
    LET current_q == r.model[e.state]
        next_q == r.target_model[e.next_state]
    IN  [current_q EXCEPT ![e.action + 1] =
            IF e.done THEN e.reward
            ELSE RAdd(e.reward, RMul(r.discount_factor, NpMax(next_q)))]

\* replay that also copies the fitted weights into the target network
replay_syncs_target(r, fitted) ==
    IF Len(r.memory) < batch_size THEN r
    ELSE [r EXCEPT !.model = fitted,
                   !.target_model = fitted,
                   !.epsilon = IF RLt(r.epsilon_min, r.epsilon)
                               THEN RMul(r.epsilon, r.epsilon_decay)
                               ELSE r.epsilon]

\* replay that already learns with one experience less than batch_size
replay_one_short(r, fitted) ==
    IF Len(r.memory) < batch_size - 1 THEN r
    ELSE [r EXCEPT !.model = fitted,
                   !.epsilon = IF RLt(r.epsilon_min, r.epsilon)
                               THEN RMul(r.epsilon, r.epsilon_decay)
                               ELSE r.epsilon]

\* AdaptiveRelayCoordinator.replay; fitted is the function the network
\* computes after model.fit on the minibatch
replay(r, fitted) ==
    IF Len(r.memory) < batch_size THEN r
    ELSE [r EXCEPT !.model = fitted,
                   !.epsilon = IF RLt(r.epsilon_min, r.epsilon)
                               THEN RMul(r.epsilon, r.epsilon_decay)
                               ELSE r.epsilon]

\* AdaptiveRelayCoordinator.load_model: the weights read from the file
\* become the online model and update_target_model copies them
load_model(r, loaded) ==
    [r EXCEPT !.model = loaded, !.target_model = loaded]

\* the reward with the relay-operation penalty starting at 3 operations
calculate_reward_ops_inclusive(action, fault_cleared, system_state) ==
    LET voltage_pu == RDiv(Get(system_state, "voltage", Int2Rat(380)), Int2Rat(380))
        relay_operations == Get(system_state, "relay_operations", 0)
        r1 == IF fault_cleared THEN Int2Rat(100) ELSE Zero
        r2 == IF action \in {0, 1} /\ ~fault_cleared THEN RSub(r1, Int2Rat(50)) ELSE r1
        r3 == IF RLe(Rat(95, 100), voltage_pu) /\ RLe(voltage_pu, Rat(105, 100))
              THEN RAdd(r2, Int2Rat(10))
              ELSE RSub(r2, RMul(RAbs(RSub(voltage_pu, One)), Int2Rat(20)))
        r4 == IF Get(system_state, "critical_load_protected", TRUE)
              THEN RAdd(r3, Int2Rat(20))
              ELSE RSub(r3, Int2Rat(100))
    IN  IF relay_operations >= 3
        THEN RSub(r4, Int2Rat(relay_operations * 10))
        ELSE r4

\* AdaptiveRelayCoordinator.calculate_reward
calculate_reward(action, fault_cleared, system_state) ==
    LET voltage_pu == RDiv(Get(system_state, "voltage", Int2Rat(380)), Int2Rat(380))
        relay_operations == Get(system_state, "relay_operations", 0)
        r1 == IF fault_cleared THEN Int2Rat(100) ELSE Zero
        r2 == IF action \in {0, 1} /\ ~fault_cleared THEN RSub(r1, Int2Rat(50)) ELSE r1
        r3 == IF RLe(Rat(95, 100), voltage_pu) /\ RLe(voltage_pu, Rat(105, 100))
              THEN RAdd(r2, Int2Rat(10))
              ELSE RSub(r2, RMul(RAbs(RSub(voltage_pu, One)), Int2Rat(20)))
        r4 == IF Get(system_state, "critical_load_protected", TRUE)
              THEN RAdd(r3, Int2Rat(20))
              ELSE RSub(r3, Int2Rat(100))
    IN  IF relay_operations > 3
        THEN RSub(r4, Int2Rat(relay_operations * 10))
        ELSE r4

\* {**fault_data, **system_state}: the right dict wins on a shared key
Merge(a, b) ==
    [key \in DOMAIN a \cup DOMAIN b |-> IF key \in DOMAIN b THEN b[key] ELSE a[key]]

\* action_map of coordinate_relays; the relay is 1, 2, 'all' or None in the
\* code, written here as a string
action_map ==
    [a \in Actions |->
        CASE a = 0 -> [relay |-> "1", command |-> "trip", time_delay |-> Rat(5, 100)]
          [] a = 1 -> [relay |-> "2", command |-> "trip", time_delay |-> Rat(1, 10)]
          [] a = 2 -> [relay |-> "all", command |-> "adjust_settings", time_delay |-> Zero]
          [] a = 3 -> [relay |-> "None", command |-> "monitor", time_delay |-> Zero]]

\* the decision of coordinate_relays taken with the training flag set
coordinate_relays_training(r, fault_data, system_state, u, k) ==
    LET state == get_state(Merge(fault_data, system_state))
        action == select_action(r, state, TRUE, u, k)
        decision == action_map[action]
    IN  [relay |-> decision.relay, command |-> decision.command,
         time_delay |-> decision.time_delay, action_index |-> action,
         confidence |-> r.model[state][ArgMax(r.model[state]) + 1]]

\* AdaptiveRelayCoordinator.coordinate_relays: the decision dict
coordinate_relays(r, fault_data, system_state, u, k) ==
    LET state == get_state(Merge(fault_data, system_state))
        action == select_action(r, state, FALSE, u, k)
        decision == action_map[action]
    IN  [relay |-> decision.relay, command |-> decision.command,
         time_delay |-> decision.time_delay, action_index |-> action,
         confidence |-> r.model[state][ArgMax(r.model[state]) + 1]]

-----------------------------------------------------------------------------
(* DCMicrogrid.check_system_stability *)

\* no stability check performed yet
NoStability == [called |-> FALSE]

\* the exception check_system_stability lets through, "none" if it
\* returns: the divisions of lines 155 and 160 have no guard
check_system_stability_raises(grid_voltage, grid_voltage_level) ==
    IF grid_voltage_level = Zero \/ grid_voltage = Zero
    THEN "ZeroDivisionError" ELSE "none"

\* the report with the limits themselves counted as violations
check_system_stability_inclusive(protection, grid_voltage, grid_voltage_level, balance) ==
    LET voltage_pu == RDiv(grid_voltage, grid_voltage_level)
        undervoltage == RLe(voltage_pu, protection.undervoltage_threshold)
        overvoltage == RLe(protection.overvoltage_threshold, voltage_pu)
        total_current ==
            RAbs(RDiv(RMul(balance.net_power, Int2Rat(1000)), grid_voltage))
        rated_current == Int2Rat(100)
        overcurrent ==
            RLe(RMul(rated_current, protection.overcurrent_threshold), total_current)
    IN  [called |-> TRUE, raised |-> "none",
         stable |-> ~(undervoltage \/ overvoltage \/ overcurrent),
         voltage_pu |-> voltage_pu, undervoltage |-> undervoltage,
         overvoltage |-> overvoltage, overcurrent |-> overcurrent,
         total_current |-> total_current]

\* DCMicrogrid.check_system_stability when no division fails
check_system_stability(protection, grid_voltage, grid_voltage_level, balance) ==
    LET voltage_pu == RDiv(grid_voltage, grid_voltage_level)
        undervoltage == RLt(voltage_pu, protection.undervoltage_threshold)
        overvoltage == RLt(protection.overvoltage_threshold, voltage_pu)
        total_current ==
            RAbs(RDiv(RMul(balance.net_power, Int2Rat(1000)), grid_voltage))
        rated_current == Int2Rat(100)
        overcurrent ==
            RLt(RMul(rated_current, protection.overcurrent_threshold), total_current)
    IN  [called |-> TRUE, raised |-> "none",
         stable |-> ~(undervoltage \/ overvoltage \/ overcurrent),
         voltage_pu |-> voltage_pu, undervoltage |-> undervoltage,
         overvoltage |-> overvoltage, overcurrent |-> overcurrent,
         total_current |-> total_current]

-----------------------------------------------------------------------------
(* Inputs explored *)

InitialSocs == {Rat(1, 5), Rat(1, 2), Rat(9, 10), Rat(19, 20)}
LoadPowers == {<<30, 50>>, <<10, 10>>}
\* (pv, wind, bess) enabled
Enabled == {<<TRUE, TRUE, TRUE>>, <<TRUE, TRUE, FALSE>>,
            <<FALSE, TRUE, TRUE>>, <<TRUE, FALSE, TRUE>>}
Irradiances == {Int2Rat(0), Int2Rat(1000)}
Temperatures == {Int2Rat(25), Int2Rat(300)}
WindSpeeds == {Int2Rat(0), Int2Rat(10), Int2Rat(12), Int2Rat(30)}
TimeSteps == {One, Rat(1, 2)}

NoResult ==
    [pv_power |-> Zero, wind_power |-> Zero, total_generation |-> Zero,
     total_load |-> Zero, battery_power |-> Zero, battery_soc |-> Zero,
     net_power |-> Zero, voltage |-> Zero, power_deficit |-> Zero]
NoCall == [op |-> "none"]
\* run_simulation's results before the first tick: every list is empty
NoResults ==
    [time |-> <<>>, pv_power |-> <<>>, wind_power |-> <<>>,
     battery_power |-> <<>>, battery_soc |-> <<>>, total_load |-> <<>>,
     net_power |-> <<>>, voltage |-> <<>>, faults_detected |-> <<>>,
     anomalies_detected |-> <<>>]

-----------------------------------------------------------------------------
(* The simulation: a microgrid stepped by calculate_power_balance *)

\* DCMicrogrid.__init__ on a configuration with initial_soc in [min_soc, max_soc]
Init ==
    /\ \E en \in Enabled, soc0 \in InitialSocs, lp \in LoadPowers :
          /\ ~en[3] => soc0 = Rat(1, 2)
          /\ config = Config(en[1], en[2], en[3], soc0, lp)
    /\ battery = BatteryStorage(config.bess.initial_soc)
    /\ current_voltage = config.system.voltage_level
    /\ grid_connected = FALSE
    /\ metrics = InitialMetrics
    /\ power_balance = NoResult
    /\ i = 0
    /\ pc = "power_balance"
    /\ results = NoResults
    /\ detector = DefaultDetector
    /\ call = NoCall
    /\ ncalls = 0
    /\ stability = NoStability
    /\ anomaly_detector = AnomalyDetector
    /\ relay = DefaultCoordinator

\* one tick: microgrid.calculate_power_balance(irradiance, temperature, wind_speed, dt)
CalculatePowerBalance ==
    /\ i < MaxTicks
    /\ voltage_level # Zero
    /\ \E irradiance \in Irradiances, temperature \in Temperatures,
          wind_speed \in WindSpeeds, dt \in TimeSteps :
          LET r == PowerBalance(irradiance, temperature, wind_speed, dt)
          IN  /\ power_balance' = r.result
              /\ battery' = r.battery
              /\ metrics' = r.metrics
    /\ i' = i + 1
    /\ UNCHANGED <<stability, anomaly_detector, relay, config, current_voltage, grid_connected, detector, call, ncalls, pc, results>>

Next == CalculatePowerBalance

Spec == Init /\ [][Next]_vars
-----------------------------------------------------------------------------
(* Claims about the simulation (specification Spec) *)

Ticked == i > 0 /\ config.bess.enabled
Charging == RLt(power_balance.power_deficit, Zero)
Discharging == RLt(Zero, power_balance.power_deficit)

\* C1: after any sequence of calculate_power_balance ticks from an initial_soc
\* in [min_soc, max_soc], the battery SOC satisfies min_soc <= soc <= max_soc.
C1_SocWithinBounds ==
    config.bess.enabled =>
        /\ RLe(battery.min_soc, battery.soc)
        /\ RLe(battery.soc, battery.max_soc)

\* a second tick in which the surplus would push the SOC over max_soc and the
\* SOC limit of charge lands it on max_soc
C1_Witness ==
    /\ Ticked /\ i = 2 /\ Charging
    /\ battery.soc = battery.max_soc
    /\ RLt(power_balance.battery_power, RNeg(power_balance.power_deficit))
    /\ RLt(power_balance.battery_power, battery.max_charge_rate)

\* C2: in a tick where the battery is enabled and no battery limit binds (the
\* battery power equals the whole deficit or the whole surplus) the reported
\* net_power is 0.
C2_NetPowerZeroUnlessLimited ==
    (Ticked /\ power_balance.battery_power = RAbs(power_balance.power_deficit))
        => power_balance.net_power = Zero

\* C3: battery_power is signed: positive in a tick where the battery charges,
\* negative in a tick where it discharges.
C3_BatteryPowerSigned ==
    Ticked =>
        /\ Charging => RLt(Zero, power_balance.battery_power)
        /\ Discharging => RLt(power_balance.battery_power, Zero)

\* C6: in every tick the battery power delivered is at most max_charge_rate
\* when charging and at most max_discharge_rate when discharging.
C6_BatteryPowerWithinRates ==
    Ticked =>
        /\ Charging =>
              RLe(RAbs(power_balance.battery_power), battery.max_charge_rate)
        /\ Discharging =>
              RLe(RAbs(power_balance.battery_power), battery.max_discharge_rate)

\* a discharging tick whose deficit exceeds max_discharge_rate and in which the
\* battery delivers exactly max_discharge_rate
C6_Witness ==
    /\ Ticked /\ Discharging
    /\ RLt(battery.max_discharge_rate, power_balance.power_deficit)
    /\ power_balance.battery_power = battery.max_discharge_rate
-----------------------------------------------------------------------------
(* The battery driven directly (specification SpecBattery) *)

Powers == {Int2Rat(10 * k) : k \in 0..MaxPowerStep}

InitBattery ==
    /\ \E soc0 \in InitialSocs :
          config = Config(TRUE, TRUE, TRUE, soc0, <<30, 50>>)
    /\ battery = BatteryStorage(config.bess.initial_soc)
    /\ current_voltage = config.system.voltage_level
    /\ grid_connected = FALSE
    /\ metrics = InitialMetrics
    /\ power_balance = NoResult
    /\ i = 0
    /\ pc = "power_balance"
    /\ results = NoResults
    /\ detector = DefaultDetector
    /\ call = NoCall
    /\ ncalls = 0
    /\ stability = NoStability
    /\ anomaly_detector = AnomalyDetector
    /\ relay = DefaultCoordinator

\* battery.charge(power, dt)
Charge ==
    /\ ncalls < MaxCalls
    /\ \E power \in Powers, dt \in TimeSteps :
          LET r == charge(battery, power, dt)
          IN  /\ battery' = r.battery
              /\ call' = [op |-> "charge", power |-> power, dt |-> dt,
                          soc_before |-> battery.soc,
                          actual_power |-> r.actual_power,
                          new_soc |-> r.battery.soc]
    /\ ncalls' = ncalls + 1
    /\ UNCHANGED <<stability, anomaly_detector, relay, config, current_voltage, grid_connected, metrics,
                   power_balance, i, detector, pc, results>>

\* battery.discharge(power, dt)
Discharge ==
    /\ ncalls < MaxCalls
    /\ \E power \in Powers, dt \in TimeSteps :
          LET r == discharge(battery, power, dt)
          IN  /\ battery' = r.battery
              /\ call' = [op |-> "discharge", power |-> power, dt |-> dt,
                          soc_before |-> battery.soc,
                          actual_power |-> r.actual_power,
                          new_soc |-> r.battery.soc]
    /\ ncalls' = ncalls + 1
    /\ UNCHANGED <<stability, anomaly_detector, relay, config, current_voltage, grid_connected, metrics,
                   power_balance, i, detector, pc, results>>

NextBattery == Charge \/ Discharge

SpecBattery == InitBattery /\ [][NextBattery]_vars

\* the SOC a charge call would reach with the rate limit alone
UnlimitedChargeSoc ==
    RAdd(call.soc_before,
         RDiv(RMul(RMul(RMin(call.power, battery.max_charge_rate), call.dt),
                   battery.efficiency),
              battery.capacity))

\* C4: a charge call whose rate-limited power would take the SOC over max_soc
\* ends with soc exactly max_soc and returns less than the requested power.
C4_ChargeClampsAtMaxSoc ==
    (call.op = "charge" /\ RLt(battery.max_soc, UnlimitedChargeSoc)) =>
        /\ call.new_soc = battery.max_soc
        /\ battery.soc = battery.max_soc
        /\ RLt(call.actual_power, call.power)

\* capacity 100, soc 0.9, max_soc 0.95: charge(50, 1) ends with soc 0.95
C4_Witness ==
    /\ call.op = "charge"
    /\ call.soc_before = Rat(9, 10) /\ call.power = Int2Rat(50) /\ call.dt = One
    /\ battery.soc = Rat(19, 20)
    /\ call.actual_power = Rat(50, 9)

\* C5: the power returned by charge and discharge is the power that accounts
\* for the SOC change applied, also when the SOC limit binds.
C5_ReturnedPowerMatchesSocChange ==
    /\ call.op = "charge" =>
          RSub(call.new_soc, call.soc_before) =
              RDiv(RMul(RMul(call.actual_power, call.dt), battery.efficiency),
                   battery.capacity)
    /\ call.op = "discharge" =>
          RSub(call.soc_before, call.new_soc) =
              RDiv(RMul(call.actual_power, call.dt),
                   RMul(battery.efficiency, battery.capacity))

\* a discharge call stopped at min_soc, returning less than the rate-limited power
C5_Witness ==
    /\ call.op = "discharge"
    /\ call.new_soc = battery.min_soc
    /\ RLt(battery.min_soc, call.soc_before)
    /\ RLt(call.actual_power, RMin(call.power, battery.max_discharge_rate))
-----------------------------------------------------------------------------
(* PVSystem.calculate_power applied to a range of inputs (specification SpecPV) *)

PVIrradiances == {Int2Rat(100 * k) : k \in -1..MaxIrradianceStep}
PVTemperatures == {Int2Rat(25 * k) : k \in -1..MaxTemperatureStep}

InitPV ==
    /\ config = Config(TRUE, TRUE, TRUE, Rat(1, 2), <<30, 50>>)
    /\ battery = BatteryStorage(config.bess.initial_soc)
    /\ current_voltage = config.system.voltage_level
    /\ grid_connected = FALSE
    /\ metrics = InitialMetrics
    /\ power_balance = NoResult
    /\ i = 0
    /\ pc = "power_balance"
    /\ results = NoResults
    /\ detector = DefaultDetector
    /\ call = NoCall
    /\ ncalls = 0
    /\ stability = NoStability
    /\ anomaly_detector = AnomalyDetector
    /\ relay = DefaultCoordinator

\* pv_system.calculate_power(irradiance, temperature)
PVCalculatePower ==
    /\ \E irradiance \in PVIrradiances, temperature \in PVTemperatures :
          call' = [op |-> "pv_calculate_power",
                   irradiance |-> irradiance, temperature |-> temperature,
                   power |-> PV_calculate_power(pv_system, irradiance, temperature)]
    /\ UNCHANGED <<stability, anomaly_detector, relay, config, battery, current_voltage, grid_connected, metrics,
                   power_balance, i, detector, ncalls, pc, results>>

NextPV == PVCalculatePower

SpecPV == InitPV /\ [][NextPV]_vars

\* C7: for all irradiance and temperature inputs, 0 <= pv_power <= rated_power.
C7_PVPowerWithinZeroAndRated ==
    call.op = "pv_calculate_power" =>
        /\ RLe(Zero, call.power)
        /\ RLe(call.power, pv_system.rated_power)

-----------------------------------------------------------------------------
(* WindTurbine.calculate_power applied to a range of speeds (specification SpecWind) *)

TurbineSpeeds == {Rat(k, 2) : k \in 0..MaxWindHalfSteps}
\* rotor diameters explored: the documented 8 m, and 12 m, with which the
\* cubic law passes rated_power below rated_speed
RotorDiameters == {8, 12}

InitWind ==
    /\ \E diameter \in RotorDiameters :
          config = [Config(TRUE, TRUE, TRUE, Rat(1, 2), <<30, 50>>)
                        EXCEPT !.wind_turbine.rotor_diameter = diameter]
    /\ battery = BatteryStorage(config.bess.initial_soc)
    /\ current_voltage = config.system.voltage_level
    /\ grid_connected = FALSE
    /\ metrics = InitialMetrics
    /\ power_balance = NoResult
    /\ i = 0
    /\ pc = "power_balance"
    /\ results = NoResults
    /\ detector = DefaultDetector
    /\ call = NoCall
    /\ ncalls = 0
    /\ stability = NoStability
    /\ anomaly_detector = AnomalyDetector
    /\ relay = DefaultCoordinator

\* wind_turbine.calculate_power(wind_speed)
WindCalculatePower ==
    /\ \E wind_speed \in TurbineSpeeds :
          call' = [op |-> "wind_calculate_power", wind_speed |-> wind_speed,
                   power |-> Wind_calculate_power(wind_turbine, wind_speed)]
    /\ UNCHANGED <<stability, anomaly_detector, relay, config, battery, current_voltage, grid_connected, metrics,
                   power_balance, i, detector, ncalls, pc, results>>

NextWind == WindCalculatePower

SpecWind == InitWind /\ [][NextWind]_vars

WindCalled == call.op = "wind_calculate_power"

\* C8 as stated: every wind speed v >= rated_speed yields exactly rated_power.
C8_RatedPowerAtOrAboveRatedSpeed ==
    (WindCalled /\ RLe(wind_turbine.rated_speed, call.wind_speed))
        => call.power = wind_turbine.rated_power

\* C8 amended: every wind speed v with rated_speed <= v <= cut_out_speed yields
\* exactly rated_power.
C8_RatedPowerFromRatedToCutOut ==
    (/\ WindCalled
     /\ RLe(wind_turbine.rated_speed, call.wind_speed)
     /\ RLe(call.wind_speed, wind_turbine.cut_out_speed))
        => call.power = wind_turbine.rated_power

\* rated_power 30, rated speed 12, cut-out 25: a wind speed of 15 gives 30
C8_Witness ==
    /\ WindCalled
    /\ call.wind_speed = Int2Rat(15)
    /\ call.power = Int2Rat(30)

\* C9: 0 strictly below cut-in and strictly above cut-out; cut-in itself yields
\* the non-zero cubic value; rated and cut-out themselves yield rated_power;
\* between cut-in and rated the output never exceeds rated_power.
C9_WindBoundariesProduce ==
    WindCalled =>
        LET v == call.wind_speed
            wt == wind_turbine
        IN  /\ (RLt(v, wt.cut_in_speed) \/ RLt(wt.cut_out_speed, v))
                  => call.power = Zero
            /\ v = wt.cut_in_speed
                  => call.power = Wind_cubic_kw(wt, v) /\ RLt(Zero, call.power)
            /\ (v = wt.rated_speed \/ v = wt.cut_out_speed)
                  => call.power = wt.rated_power
            /\ (RLe(wt.cut_in_speed, v) /\ RLt(v, wt.rated_speed))
                  => RLe(call.power, wt.rated_power)

\* a speed between cut-in and rated at which the cubic law exceeds rated_power
\* and the output is held at rated_power
C9_Witness ==
    /\ WindCalled
    /\ RLe(wind_turbine.cut_in_speed, call.wind_speed)
    /\ RLt(call.wind_speed, wind_turbine.rated_speed)
    /\ RLt(wind_turbine.rated_power, Wind_cubic_kw(wind_turbine, call.wind_speed))
    /\ call.power = wind_turbine.rated_power
-----------------------------------------------------------------------------
(* FaultDetector.detect_fault applied to windows (specification SpecFault) *)

\* the sequences of k naturals that sum to n
RECURSIVE Compositions(_, _)
Compositions(n, k) ==
    IF k = 1
    THEN {<<n>>}
    ELSE UNION {{<<a>> \o rest : rest \in Compositions(n - a, k - 1)} : a \in 0..n}

\* softmax outputs: 7 class probabilities on the grid that sum to 1
ProbVectors ==
    {[k \in 1..Len(fault_types) |-> Rat(c[k], ProbSteps)] :
        c \in Compositions(ProbSteps, Len(fault_types))}

\* window lengths around sequence_length
WindowLengths == {0, 99, 100, 101}
\* the documented default and a threshold on the probability grid
Thresholds == {Rat(85, 100), Rat(2, 3)}

InitFault ==
    /\ config = Config(TRUE, TRUE, TRUE, Rat(1, 2), <<30, 50>>)
    /\ battery = BatteryStorage(config.bess.initial_soc)
    /\ current_voltage = config.system.voltage_level
    /\ grid_connected = FALSE
    /\ metrics = InitialMetrics
    /\ power_balance = NoResult
    /\ i = 0
    /\ pc = "power_balance"
    /\ results = NoResults
    /\ \E threshold \in Thresholds : detector = FaultDetector(threshold)
    /\ call = NoCall
    /\ ncalls = 0
    /\ stability = NoStability
    /\ anomaly_detector = AnomalyDetector
    /\ relay = DefaultCoordinator

\* fault_detector.detect_fault(data) on a window too short: the scaler is
\* fitted if there is none, the model is not consulted
DetectFaultShort ==
    /\ ncalls < MaxCalls
    /\ \E window \in WindowLengths :
          /\ preprocess_raises(detector, window) = "none"
          /\ window < detector.sequence_length
          /\ detector' = preprocess_data(detector, window)
          /\ call' = [op |-> "detect_fault", window |-> window,
                      result |-> InsufficientData]
    /\ ncalls' = ncalls + 1
    /\ UNCHANGED <<stability, anomaly_detector, relay, config, battery, current_voltage, grid_connected, metrics,
                   power_balance, i, pc, results>>

\* fault_detector.detect_fault(data) on a full window: model.predict returns
\* some probability vector for the last sequence
DetectFault ==
    /\ ncalls < MaxCalls
    /\ \E window \in WindowLengths, predictions \in ProbVectors :
          /\ preprocess_raises(detector, window) = "none"
          /\ window >= detector.sequence_length
          /\ detector' = preprocess_data(detector, window)
          /\ call' = [op |-> "detect_fault", window |-> window,
                      predictions |-> predictions,
                      result |-> FaultResult(detector', predictions)]
    /\ ncalls' = ncalls + 1
    /\ UNCHANGED <<stability, anomaly_detector, relay, config, battery, current_voltage, grid_connected, metrics,
                   power_balance, i, pc, results>>

\* fault_detector.detect_fault(data) when preprocess_data raises: the call
\* is left by the exception at line 162, before the length check; a scaler
\* created by this call stays in self.scaler
DetectFaultRaises ==
    /\ ncalls < MaxCalls
    /\ \E window \in WindowLengths :
          /\ preprocess_raises(detector, window) # "none"
          /\ detector' = preprocess_data(detector, window)
          /\ call' = [op |-> "detect_fault", window |-> window,
                      result |-> [raised |-> preprocess_raises(detector, window)]]
    /\ ncalls' = ncalls + 1
    /\ UNCHANGED <<stability, anomaly_detector, relay, config, battery,
                   current_voltage, grid_connected, metrics, power_balance, i, pc, results>>

NextFault == DetectFaultShort \/ DetectFault \/ DetectFaultRaises

SpecFault == InitFault /\ [][NextFault]_vars

Predicted == call.op = "detect_fault" /\ "predictions" \in DOMAIN call

\* C10: fault_detected holds iff the top class is not no_fault and its
\* confidence is at least confidence_threshold; fault_type names the top class
\* also below the threshold; confidence is the largest class probability.
C10_FaultGate ==
    Predicted =>
        LET r == call.result
            p == call.predictions
        IN  /\ r.fault_detected <=>
                  (/\ r.fault_type # "no_fault"
                   /\ RLe(detector.confidence_threshold, r.confidence))
            /\ \A k \in 1..Len(p) : RLe(p[k], r.confidence)
            /\ \E k \in 1..Len(p) : fault_types[k] = r.fault_type /\ p[k] = r.confidence

\* a fault class on top with confidence below the threshold: not detected,
\* and fault_type still names the class
C10_Witness ==
    /\ Predicted
    /\ call.result.fault_type = "short_circuit"
    /\ RLt(call.result.confidence, detector.confidence_threshold)
    /\ ~call.result.fault_detected

\* C11: for every window shorter than sequence_length, the empty window
\* included and whatever calls came before, detect_fault returns the sentinel
\* (no fault, no_fault, confidence 0, a message) and does not raise.
C11_ShortWindowSentinel ==
    (call.op = "detect_fault" /\ call.window < detector.sequence_length) =>
        /\ "raised" \notin DOMAIN call.result
        /\ call.result.fault_detected = FALSE
        /\ call.result.fault_type = "no_fault"
        /\ call.result.confidence = Zero
        /\ "message" \in DOMAIN call.result

-----------------------------------------------------------------------------
(* The anomaly detector called directly (specification SpecAnomaly) *)

Scores == {Rat(-k, 10) : k \in 0..MaxScoreTenths}
\* values of model.offset_ after fit
Offsets == {Rat(-1, 2), Rat(-1, 10)}
NetworkData ==
    {[failed_login_attempts |-> f, command_frequency |-> c] :
        f \in {Int2Rat(5), Int2Rat(6)}, c \in {Int2Rat(100), Int2Rat(101)}}
    \cup
    {[packet_rate |-> p, failed_login_attempts |-> f, command_frequency |-> c] :
        p \in {Int2Rat(1000), Int2Rat(1001)},
        f \in {Int2Rat(5), Int2Rat(6)}, c \in {Int2Rat(100), Int2Rat(101)}}

InitAnomaly ==
    /\ config = Config(TRUE, TRUE, TRUE, Rat(1, 2), <<30, 50>>)
    /\ battery = BatteryStorage(config.bess.initial_soc)
    /\ current_voltage = config.system.voltage_level
    /\ grid_connected = FALSE
    /\ metrics = InitialMetrics
    /\ power_balance = NoResult
    /\ i = 0
    /\ pc = "power_balance"
    /\ results = NoResults
    /\ detector = DefaultDetector
    /\ call = NoCall
    /\ ncalls = 0
    /\ stability = NoStability
    /\ anomaly_detector = AnomalyDetector
    /\ relay = DefaultCoordinator

\* anomaly_detector.fit(X) on training data with at least one sample
Fit ==
    /\ ncalls < MaxCalls
    /\ \E offset \in Offsets :
          anomaly_detector' = [anomaly_detector EXCEPT !.fitted = TRUE,
                                                       !.offset_ = offset]
    /\ call' = [op |-> "fit"]
    /\ ncalls' = ncalls + 1
    /\ UNCHANGED <<stability, relay, config, battery, current_voltage,
                   grid_connected, metrics, power_balance, i, detector, pc, results>>

\* anomaly_detector.predict(X): scaler.transform raises NotFittedError before
\* fit; after fit the library returns some scores for the batch
Predict ==
    /\ ncalls < MaxCalls
    /\ \E n \in 1..MaxBatch :
       \E scores \in [1..n -> Scores] :
          call' = [op |-> "predict", scores |-> scores,
                   result |-> IF anomaly_detector.fitted
                              THEN predict(anomaly_detector, scores)
                              ELSE [raised |-> "NotFittedError"]]
    /\ ncalls' = ncalls + 1
    /\ UNCHANGED <<stability, anomaly_detector, relay, config, battery,
                   current_voltage, grid_connected, metrics, power_balance, i,
                   detector, pc, results>>

\* anomaly_detector.detect_cyber_attacks(network_data)
DetectCyberAttacks ==
    /\ ncalls < MaxCalls
    /\ \E network_data \in NetworkData, score \in Scores :
          call' = [op |-> "detect_cyber_attacks", network_data |-> network_data,
                   result |-> IF anomaly_detector.fitted
                              THEN detect_cyber_attacks(anomaly_detector, network_data, score)
                              ELSE [raised |-> "NotFittedError"]]
    /\ ncalls' = ncalls + 1
    /\ UNCHANGED <<stability, anomaly_detector, relay, config, battery,
                   current_voltage, grid_connected, metrics, power_balance, i,
                   detector, pc, results>>

NextAnomaly == Fit \/ Predict \/ DetectCyberAttacks

SpecAnomaly == InitAnomaly /\ [][NextAnomaly]_vars

AnomalyFound ==
    /\ call.op = "detect_cyber_attacks"
    /\ "anomalies_detected" \in DOMAIN call.result
    /\ call.result.anomalies_detected

Contains(seq, x) == \E k \in 1..Len(seq) : seq[k] = x

\* C12: when detect_cyber_attacks finds an anomaly, potential_attacks is not
\* empty; it contains DDoS iff packet_rate > 1000, Brute Force iff
\* failed_login_attempts > 5, Command Injection iff command_frequency > 100,
\* and it is exactly [Unknown] iff none of the three rules matches.
C12_PotentialAttacks ==
    AnomalyFound =>
        LET pa == call.result.potential_attacks
            nd == call.network_data
            ddos == RLt(Int2Rat(1000), Get(nd, "packet_rate", Zero))
            brute == RLt(Int2Rat(5), Get(nd, "failed_login_attempts", Zero))
            inject == RLt(Int2Rat(100), Get(nd, "command_frequency", Zero))
        IN  /\ Len(pa) > 0
            /\ Contains(pa, "DDoS") <=> ddos
            /\ Contains(pa, "Brute Force") <=> brute
            /\ Contains(pa, "Command Injection") <=> inject
            /\ (pa = <<"Unknown">>) <=> ~(ddos \/ brute \/ inject)

\* two rules match at once, and the packet rate is exactly at its cutoff
C12_Witness ==
    /\ AnomalyFound
    /\ "packet_rate" \in DOMAIN call.network_data
    /\ call.network_data.packet_rate = Int2Rat(1000)
    /\ call.result.potential_attacks = <<"Brute Force", "Command Injection">>

SeverityRank(level) ==
    CASE level = "low" -> 0 [] level = "medium" -> 1
      [] level = "high" -> 2 [] level = "critical" -> 3

PredictReturned == call.op = "predict" /\ "severity" \in DOMAIN call.result

\* C13: the severity of predict depends only on the lowest score of the
\* batch: critical below -0.5, else high below -0.3, else medium below -0.1,
\* else low; a score exactly at a cutoff is in the less severe level, and a
\* lower minimum never gives a less severe level.
C13_SeverityFromMinScore ==
    PredictReturned =>
        LET sc == call.scores
            sev == call.result.severity
        IN  \E k \in 1..Len(sc) :
               /\ \A j \in 1..Len(sc) : RLe(sc[k], sc[j])
               /\ sev = "critical" <=> RLt(sc[k], Rat(-1, 2))
               /\ sev = "high" <=> (RLe(Rat(-1, 2), sc[k]) /\ RLt(sc[k], Rat(-3, 10)))
               /\ sev = "medium" <=> (RLe(Rat(-3, 10), sc[k]) /\ RLt(sc[k], Rat(-1, 10)))
               /\ sev = "low" <=> RLe(Rat(-1, 10), sc[k])
               /\ \A other \in Scores :
                     RLe(other, sc[k]) =>
                        SeverityRank(_calculate_severity(<<other>>)) >= SeverityRank(sev)

\* the lowest score of a batch of two is exactly -0.5: high, not critical
C13_Witness ==
    /\ PredictReturned
    /\ Len(call.scores) = 2
    /\ call.scores[1] = Zero
    /\ call.scores[2] = Rat(-1, 2)
    /\ call.result.severity = "high"

-----------------------------------------------------------------------------
(* The relay coordinator called directly (specification SpecRelay) *)

\* config epsilon: the default 0.1, epsilon_min itself, and 0.01004
Epsilons == {Rat(1, 10), Rat(1, 100), Rat(251, 25000)}
\* values of random.random()
Draws == {Zero, Rat(1, 2)}
EmptyDict == <<>>
Experiences ==
    {[state |-> DefaultState, action |-> 0, reward |-> Int2Rat(130),
      next_state |-> DefaultState, done |-> TRUE],
     [state |-> ZeroState, action |-> 3, reward |-> Int2Rat(-100),
      next_state |-> DefaultState, done |-> FALSE]}
\* the memory after batch_size - 1 calls of remember with one experience
PrefilledMemory ==
    [k \in 1..(batch_size - 1) |->
        [state |-> DefaultState, action |-> 0, reward |-> Int2Rat(130),
         next_state |-> DefaultState, done |-> TRUE]]
\* the memory after batch_size calls of remember, the last one with an
\* experience that is not terminal
FilledMemory ==
    Append(PrefilledMemory,
           [state |-> ZeroState, action |-> 3, reward |-> Int2Rat(-100),
            next_state |-> DefaultState, done |-> FALSE])
FaultData == {EmptyDict, [fault_severity |-> Zero, fault_location |-> Zero]}
SystemStates ==
    {EmptyDict,
     [voltage |-> Zero, current |-> Zero, power |-> Zero, battery_soc |-> Zero,
      time_of_day |-> Zero, load_priority |-> Zero]}

\* AdaptiveRelayCoordinator.__init__ with a configured epsilon >= epsilon_min,
\* then possibly batch_size - 1 or batch_size calls of remember
InitRelay ==
    /\ config = Config(TRUE, TRUE, TRUE, Rat(1, 2), <<30, 50>>)
    /\ battery = BatteryStorage(config.bess.initial_soc)
    /\ current_voltage = config.system.voltage_level
    /\ grid_connected = FALSE
    /\ metrics = InitialMetrics
    /\ power_balance = NoResult
    /\ i = 0
    /\ pc = "power_balance"
    /\ results = NoResults
    /\ detector = DefaultDetector
    /\ call = NoCall
    /\ ncalls = 0
    /\ stability = NoStability
    /\ anomaly_detector = AnomalyDetector
    /\ \E epsilon \in Epsilons, model \in FreshModels,
          memory \in {<<>>, PrefilledMemory, FilledMemory} :
          relay = [AdaptiveRelayCoordinator(epsilon, model) EXCEPT !.memory = memory]

\* coordinator.remember(state, action, reward, next_state, done)
Remember ==
    /\ ncalls < MaxRelayCalls
    /\ \E experience \in Experiences :
          /\ relay' = remember(relay, experience)
          /\ call' = [op |-> "remember", experience |-> experience]
    /\ ncalls' = ncalls + 1
    /\ UNCHANGED <<stability, anomaly_detector, config, battery, current_voltage,
                   grid_connected, metrics, power_balance, i, detector, pc, results>>

\* coordinator.replay(): nothing below batch_size experiences, otherwise one
\* fit of the network on a minibatch and the epsilon decay; the call records
\* the targets of the experiences the minibatch is sampled from
Replay ==
    /\ ncalls < MaxRelayCalls
    /\ \E fitted \in Models :
          /\ relay' = replay(relay, fitted)
          /\ call' = [op |-> "replay",
                      learned |-> Len(relay.memory) >= batch_size,
                      epsilon_before |-> relay.epsilon,
                      model_before |-> relay.model,
                      targets |->
                         IF Len(relay.memory) < batch_size THEN {}
                         ELSE {<<relay.memory[k], replay_target(relay, relay.memory[k])>> :
                                  k \in 1..Len(relay.memory)}]
    /\ ncalls' = ncalls + 1
    /\ UNCHANGED <<stability, anomaly_detector, config, battery, current_voltage,
                   grid_connected, metrics, power_balance, i, detector, pc, results>>

\* coordinator.select_action(state, training)
SelectAction ==
    /\ ncalls < MaxRelayCalls
    /\ \E state \in StateSpace, training \in BOOLEAN, u \in Draws, k \in Actions :
          call' = [op |-> "select_action", state |-> state, training |-> training,
                   u |-> u, k |-> k,
                   action |-> select_action(relay, state, training, u, k)]
    /\ ncalls' = ncalls + 1
    /\ UNCHANGED <<stability, anomaly_detector, relay, config, battery,
                   current_voltage, grid_connected, metrics, power_balance, i,
                   detector, pc, results>>

\* coordinator.coordinate_relays(fault_data, system_state)
CoordinateRelays ==
    /\ ncalls < MaxRelayCalls
    /\ \E fault_data \in FaultData, system_state \in SystemStates,
          u \in Draws, k \in Actions :
          call' = [op |-> "coordinate_relays",
                   state |-> get_state(Merge(fault_data, system_state)),
                   u |-> u, k |-> k,
                   decision |-> coordinate_relays(relay, fault_data, system_state, u, k)]
    /\ ncalls' = ncalls + 1
    /\ UNCHANGED <<stability, anomaly_detector, relay, config, battery,
                   current_voltage, grid_connected, metrics, power_balance, i,
                   detector, pc, results>>

\* coordinator.load_model(filepath) on a file saved from some model
LoadModel ==
    /\ ncalls < MaxRelayCalls
    /\ \E loaded \in Models :
          /\ relay' = load_model(relay, loaded)
          /\ call' = [op |-> "load_model"]
    /\ ncalls' = ncalls + 1
    /\ UNCHANGED <<stability, anomaly_detector, config, battery, current_voltage,
                   grid_connected, metrics, power_balance, i, detector, pc, results>>

NextRelay == Remember \/ Replay \/ SelectAction \/ CoordinateRelays \/ LoadModel

SpecRelay == InitRelay /\ [][NextRelay]_vars

Learned == call.op = "replay" /\ call.learned

\* C14: with an initial epsilon >= epsilon_min, every replay that learns
\* multiplies epsilon by 0.995 with a floor at epsilon_min, and epsilon is
\* never below epsilon_min.
C14_EpsilonFloor ==
    /\ RLe(relay.epsilon_min, relay.epsilon)
    /\ Learned =>
          LET decayed == RMul(call.epsilon_before, Rat(995, 1000))
          IN  relay.epsilon =
                 IF RLt(decayed, relay.epsilon_min) THEN relay.epsilon_min ELSE decayed

GreedyCall == call.op = "select_action" /\ ~call.training

\* C15: select_action with training=False returns the same action for the
\* same state and model whatever epsilon is and whatever the random
\* generator would draw.
C15_GreedyDeterministic ==
    GreedyCall =>
        \A epsilon \in Epsilons, u \in Draws, k \in Actions :
            select_action([relay EXCEPT !.epsilon = epsilon],
                          call.state, FALSE, u, k) = call.action

\* a greedy call whose draw is below epsilon and whose random action differs
\* from the one returned
C15_Witness ==
    /\ GreedyCall
    /\ RLt(call.u, relay.epsilon)
    /\ call.k # call.action

\* C16: on a coordinator just constructed, the action values of a state are
\* all zero and select_action with training=False returns action 0.
C16_UntrainedGreedyIsZero ==
    (GreedyCall /\ ncalls = 1) =>
        /\ relay.model[call.state] = <<Zero, Zero, Zero, Zero>>
        /\ call.action = 0

CoordinateStep == ncalls' = ncalls + 1 /\ call'.op = "coordinate_relays"

\* C18: coordinate_relays takes the greedy action of the model for the state,
\* never a random one whatever epsilon is; action 0 trips relay 1 after
\* 0.05 s, 1 trips relay 2 after 0.1 s, 2 adjusts settings and 3 monitors
\* without delay; epsilon, the replay memory and the model are unchanged.
C18_CoordinateGreedy ==
    [][CoordinateStep =>
          LET q == relay.model[call'.state]
              d == call'.decision
              a == d.action_index
          IN  /\ relay' = relay
              /\ a \in Actions
              /\ \A j \in Actions : RLe(q[j + 1], q[a + 1])
              /\ \A j \in 0..(a - 1) : RLt(q[j + 1], q[a + 1])
              /\ a = 0 => (d.relay = "1" /\ d.command = "trip"
                           /\ d.time_delay = Rat(5, 100))
              /\ a = 1 => (d.relay = "2" /\ d.command = "trip"
                           /\ d.time_delay = Rat(1, 10))
              /\ a = 2 => (d.command = "adjust_settings" /\ d.time_delay = Zero)
              /\ a = 3 => (d.command = "monitor" /\ d.time_delay = Zero)]_vars

\* a decision taken while the draw is below epsilon and the random action is
\* another one: relay 2 is tripped because its action value is the largest
C18_Witness ==
    /\ call.op = "coordinate_relays"
    /\ RLt(call.u, relay.epsilon)
    /\ call.decision.action_index = 1
    /\ call.k # 1
    /\ call.decision.relay = "2"

-----------------------------------------------------------------------------
(* calculate_reward called directly (specification SpecReward) *)

RewardStates ==
    {EmptyDict}
    \cup
    {[voltage |-> Int2Rat(v), critical_load_protected |-> c, relay_operations |-> n] :
        v \in {360, 361, 380, 399, 400}, c \in BOOLEAN, n \in {3, 4}}

InitReward ==
    /\ config = Config(TRUE, TRUE, TRUE, Rat(1, 2), <<30, 50>>)
    /\ battery = BatteryStorage(config.bess.initial_soc)
    /\ current_voltage = config.system.voltage_level
    /\ grid_connected = FALSE
    /\ metrics = InitialMetrics
    /\ power_balance = NoResult
    /\ i = 0
    /\ pc = "power_balance"
    /\ results = NoResults
    /\ detector = DefaultDetector
    /\ call = NoCall
    /\ ncalls = 0
    /\ stability = NoStability
    /\ anomaly_detector = AnomalyDetector
    /\ \E model \in FreshModels :
          relay = AdaptiveRelayCoordinator(Rat(1, 10), model)

\* coordinator.calculate_reward(action, fault_cleared, system_state)
CalculateReward ==
    /\ ncalls < MaxCalls
    /\ \E action \in Actions, fault_cleared \in BOOLEAN, system_state \in RewardStates :
          call' = [op |-> "calculate_reward", action |-> action,
                   fault_cleared |-> fault_cleared, system_state |-> system_state,
                   reward |-> calculate_reward(action, fault_cleared, system_state)]
    /\ ncalls' = ncalls + 1
    /\ UNCHANGED <<stability, anomaly_detector, relay, config, battery,
                   current_voltage, grid_connected, metrics, power_balance, i,
                   detector, pc, results>>

NextReward == CalculateReward

SpecReward == InitReward /\ [][NextReward]_vars

\* the five terms of the reward, from the arguments recorded in a call
RewardTerms(c) ==
    LET ss == c.system_state
        voltage_pu == RDiv(Get(ss, "voltage", Int2Rat(380)), Int2Rat(380))
        within == RLe(Rat(19, 20), voltage_pu) /\ RLe(voltage_pu, Rat(21, 20))
        count == Get(ss, "relay_operations", 0)
    IN  <<IF c.fault_cleared THEN Int2Rat(100) ELSE Zero,
          IF c.action \in {0, 1} /\ ~c.fault_cleared THEN Int2Rat(-50) ELSE Zero,
          IF within THEN Int2Rat(10)
          ELSE RNeg(RMul(Int2Rat(20), RAbs(RSub(voltage_pu, One)))),
          IF Get(ss, "critical_load_protected", TRUE) THEN Int2Rat(20) ELSE Int2Rat(-100),
          IF count > 3 THEN Int2Rat(-10 * count) ELSE Zero>>

\* C17: calculate_reward is the sum of +100 if the fault is cleared, -50 for
\* a trip (action 0 or 1) that does not clear it, +10 if the voltage is
\* within +-5% of nominal (bounds included) else -20*|voltage_pu - 1|, +20 if
\* the critical loads are served else -100, and -10*count when the count of
\* relay operations exceeds 3; the coordinator is not changed.
C17_RewardIsSumOfTerms ==
    [][(ncalls' = ncalls + 1 /\ call'.op = "calculate_reward") =>
          LET t == RewardTerms(call')
          IN  /\ relay' = relay
              /\ call'.reward = RAdd(RAdd(RAdd(RAdd(t[1], t[2]), t[3]), t[4]), t[5])]_vars

\* a trip that fails, at the upper voltage bound, critical loads lost, three
\* relay operations: -50 + 10 - 100 and no operation penalty
C17_Witness ==
    /\ call.op = "calculate_reward"
    /\ call.action = 1
    /\ ~call.fault_cleared
    /\ call.system_state # EmptyDict
    /\ call.system_state.voltage = Int2Rat(399)
    /\ ~call.system_state.critical_load_protected
    /\ call.system_state.relay_operations = 3
    /\ call.reward = Int2Rat(-140)

-----------------------------------------------------------------------------
(* Ticks followed by stability checks (specification SpecStability) *)

VoltageLevels == {Int2Rat(400), Zero}
\* (undervoltage_threshold, overvoltage_threshold, overcurrent_threshold)
ProtectionSettings ==
    {<<Rat(9, 10), Rat(11, 10), Rat(3, 2)>>,
     <<Rat(9, 10), Rat(11, 10), Int2Rat(2)>>,
     <<One, One, Rat(3, 2)>>,
     <<Rat(21, 20), Rat(11, 10), Rat(3, 2)>>,
     <<Rat(9, 10), Rat(19, 20), Rat(3, 2)>>}

\* DCMicrogrid.__init__ on configurations without battery that differ in the
\* bus voltage and the protection thresholds
InitStability ==
    /\ \E level \in VoltageLevels, p \in ProtectionSettings :
          config = [Config(TRUE, TRUE, FALSE, Rat(1, 2), <<30, 50>>)
                      EXCEPT !.system.voltage_level = level,
                             !.protection.undervoltage_threshold = p[1],
                             !.protection.overvoltage_threshold = p[2],
                             !.protection.overcurrent_threshold = p[3]]
    /\ battery = BatteryStorage(config.bess.initial_soc)
    /\ current_voltage = config.system.voltage_level
    /\ grid_connected = FALSE
    /\ metrics = InitialMetrics
    /\ power_balance = NoResult
    /\ i = 0
    /\ pc = "power_balance"
    /\ results = NoResults
    /\ detector = DefaultDetector
    /\ call = NoCall
    /\ ncalls = 0
    /\ stability = NoStability
    /\ anomaly_detector = AnomalyDetector
    /\ relay = DefaultCoordinator

\* a tick on a microgrid whose voltage_level is 0: Load.calculate_power
\* divides by base_voltage and raises before anything is assigned
CalculatePowerBalanceRaises ==
    /\ i < MaxTicks
    /\ voltage_level = Zero
    /\ loads # <<>>
    /\ power_balance' = [raised |-> "ZeroDivisionError"]
    /\ UNCHANGED <<stability, anomaly_detector, relay, config, battery,
                   current_voltage, grid_connected, metrics, i, detector, call,
                   ncalls, pc, results>>

\* microgrid.check_system_stability(power_balance) on the result of the last
\* tick, or on a dict of zeros when no tick was made
CheckSystemStability ==
    /\ "net_power" \in DOMAIN power_balance
    /\ stability' =
          IF check_system_stability_raises(current_voltage, voltage_level) = "none"
          THEN check_system_stability(config.protection, current_voltage,
                                      voltage_level, power_balance)
          ELSE [called |-> TRUE,
                raised |-> check_system_stability_raises(current_voltage, voltage_level)]
    /\ stability' # stability
    /\ UNCHANGED <<anomaly_detector, relay, config, battery, current_voltage,
                   grid_connected, metrics, power_balance, i, detector, call,
                   ncalls, pc, results>>

NextStability ==
    CalculatePowerBalance \/ CalculatePowerBalanceRaises \/ CheckSystemStability

SpecStability == InitStability /\ [][NextStability]_vars

\* C19: check_system_stability reports voltage_pu = current_voltage /
\* voltage_level, undervoltage = voltage_pu < undervoltage_threshold,
\* overvoltage = voltage_pu > overvoltage_threshold, total_current =
\* |net_power| * 1000 / current_voltage, overcurrent = total_current >
\* 100 * overcurrent_threshold, and stable = none of the three; a value
\* exactly at its threshold is not flagged.
C19_StabilityReport ==
    [][(stability' # stability /\ stability'.raised = "none") =>
          LET r == stability'
              p == config.protection
          IN  /\ RMul(r.voltage_pu, voltage_level) = current_voltage
              /\ r.undervoltage <=> RLt(r.voltage_pu, p.undervoltage_threshold)
              /\ r.overvoltage <=> RLt(p.overvoltage_threshold, r.voltage_pu)
              /\ RMul(r.total_current, current_voltage) =
                    RMul(RAbs(power_balance.net_power), Int2Rat(1000))
              /\ r.overcurrent <=>
                    RLt(RMul(Int2Rat(100), p.overcurrent_threshold), r.total_current)
              /\ r.stable <=> ~(r.undervoltage \/ r.overvoltage \/ r.overcurrent)]_vars

\* a deficit of 80 kW at 400 V is 200 A, exactly twice the rated current:
\* with overcurrent_threshold 2 it is not an overcurrent
C19_Witness ==
    /\ stability.called
    /\ stability.raised = "none"
    /\ config.protection.overcurrent_threshold = Int2Rat(2)
    /\ stability.total_current = Int2Rat(200)
    /\ ~stability.overcurrent
    /\ stability.stable

\* IEEE infinity, the other sentinel the claim allows
Infinity == [n |-> 1, d |-> 0]

\* C20: with current_voltage 0, check_system_stability does not fail with a
\* division by zero: it returns a report whose total_current is 0 or
\* infinity.
C20_ZeroVoltageSentinel ==
    (stability.called /\ current_voltage = Zero) =>
        /\ stability.raised = "none"
        /\ stability.total_current \in {Zero, Infinity}

-----------------------------------------------------------------------------
(* Further claims about the simulation (specification Spec) *)

TickStep == i' = i + 1

\* C21: in a tick with an enabled battery, power_deficit = total_load -
\* (pv_power + wind_power); if it is > 0 discharge is called and delivers
\* min(deficit, max_discharge_rate) unless the SOC bound reduces it; if < 0
\* charge is called with the surplus; if 0 neither is called, SOC and
\* cycle_count stay, battery_power is 0 and battery_soc is the current SOC.
C21_BatteryDispatch ==
    [][(TickStep /\ config.bess.enabled) =>
          LET pb == power_balance'
              d == pb.power_deficit
              discharged == RLt(battery.cycle_count, battery'.cycle_count)
          IN  /\ d = RSub(pb.total_load, RAdd(pb.pv_power, pb.wind_power))
              /\ RLt(Zero, d) =>
                    /\ discharged
                    /\ RLe(battery'.soc, battery.soc)
                    /\ \/ pb.battery_power = RMin(d, battery.max_discharge_rate)
                       \/ /\ battery'.soc = battery.min_soc
                          /\ RLt(pb.battery_power, RMin(d, battery.max_discharge_rate))
                    /\ pb.battery_soc = battery'.soc
              /\ RLt(d, Zero) =>
                    /\ ~discharged
                    /\ RLe(battery.soc, battery'.soc)
                    /\ \/ pb.battery_power = RMin(RNeg(d), battery.max_charge_rate)
                       \/ /\ battery'.soc = battery.max_soc
                          /\ RLt(pb.battery_power, RMin(RNeg(d), battery.max_charge_rate))
                    /\ pb.battery_soc = battery'.soc
              /\ d = Zero =>
                    /\ battery' = battery
                    /\ pb.battery_power = Zero
                    /\ pb.battery_soc = battery.soc]_vars

\* a second tick in which generation equals the load: the battery, which the
\* first tick discharged, is left alone
C21_Witness ==
    /\ Ticked /\ i = 2
    /\ power_balance.power_deficit = Zero
    /\ power_balance.battery_power = Zero
    /\ power_balance.battery_soc = battery.soc
    /\ RLt(Zero, battery.cycle_count)

-----------------------------------------------------------------------------
(* Further claims about the relay coordinator (specification SpecRelay) *)

\* C22: a learning update applies Q(s,a) <- Q(s,a) + alpha*(r + gamma *
\* max_a' Q(s',a') - Q(s,a)) for the experiences it learns from, to the action
\* taken only: the values of the other actions and of all other states stay.
C22_QLearningRule ==
    Learned =>
        LET before == call.model_before
            sampled == {p[1] : p \in call.targets}
        IN  \A s \in StateSpace, a \in Actions :
               IF \E e \in sampled : e.state = s /\ e.action = a
               THEN \E e \in sampled :
                       /\ e.state = s /\ e.action = a
                       /\ relay.model[s][a + 1] =
                             RAdd(before[s][a + 1],
                                  RMul(relay.learning_rate,
                                       RSub(RAdd(e.reward,
                                                 RMul(relay.discount_factor,
                                                      NpMax(before[e.next_state]))),
                                            before[s][a + 1])))
               ELSE relay.model[s][a + 1] = before[s][a + 1]

RelayStep == ncalls' = ncalls + 1

\* C27: the target network is synchronised with the online model only at
\* construction and in load_model: remember, replay, select_action and
\* coordinate_relays never change it, and the bootstrapped targets of a
\* learning replay are reward + gamma * max of the target network as it was
\* at construction or at the last load.
C27_TargetSyncedOnlyOnLoad ==
    [][RelayStep =>
          IF call'.op = "load_model"
          THEN relay'.target_model = relay'.model
          ELSE /\ relay'.target_model = relay.target_model
               /\ (call'.op = "replay" /\ call'.learned) =>
                     \A p \in call'.targets :
                        ~p[1].done =>
                           p[2][p[1].action + 1] =
                              RAdd(p[1].reward,
                                   RMul(relay.discount_factor,
                                        NpMax(relay'.target_model[p[1].next_state])))]_vars

\* a second learning replay: the online model was changed by the first one,
\* the target network still holds the weights of the construction
C27_Witness ==
    /\ Learned
    /\ ncalls = 2
    /\ call.model_before # relay.target_model
    /\ \E p \in call.targets : ~p[1].done

\* C29: replay does nothing while the memory holds fewer than batch_size
\* experiences (model, target model, memory and epsilon stay); epsilon
\* changes only in a replay with at least batch_size experiences.
C29_ReplayNoOpBelowBatch ==
    [][RelayStep =>
          /\ (call'.op = "replay" /\ Len(relay.memory) < batch_size) =>
                relay' = relay
          /\ relay'.epsilon # relay.epsilon =>
                (call'.op = "replay" /\ Len(relay.memory) >= batch_size)]_vars

\* replay with one experience less than batch_size in the memory
C29_Witness ==
    /\ call.op = "replay"
    /\ ~call.learned
    /\ Len(relay.memory) = batch_size - 1
    /\ relay.epsilon = call.epsilon_before
    /\ RLt(relay.epsilon_min, relay.epsilon)

-----------------------------------------------------------------------------
(* The replay memory near its capacity (specification SpecMemory) *)

\* the memory after memory_maxlen - 1 calls of remember: one terminal
\* experience first, then non-terminal ones
NearlyFullMemory ==
    [k \in 1..(memory_maxlen - 1) |->
        IF k = 1
        THEN [state |-> DefaultState, action |-> 0, reward |-> Int2Rat(130),
              next_state |-> DefaultState, done |-> TRUE]
        ELSE [state |-> ZeroState, action |-> 3, reward |-> Int2Rat(-100),
              next_state |-> DefaultState, done |-> FALSE]]

\* AdaptiveRelayCoordinator.__init__, then memory_maxlen - 1 calls of remember
InitMemory ==
    /\ config = Config(TRUE, TRUE, TRUE, Rat(1, 2), <<30, 50>>)
    /\ battery = BatteryStorage(config.bess.initial_soc)
    /\ current_voltage = config.system.voltage_level
    /\ grid_connected = FALSE
    /\ metrics = InitialMetrics
    /\ power_balance = NoResult
    /\ i = 0
    /\ pc = "power_balance"
    /\ results = NoResults
    /\ detector = DefaultDetector
    /\ call = NoCall
    /\ ncalls = 0
    /\ stability = NoStability
    /\ anomaly_detector = AnomalyDetector
    /\ relay = [DefaultCoordinator EXCEPT !.memory = NearlyFullMemory]

NextMemory == Remember \/ Replay

SpecMemory == InitMemory /\ [][NextMemory]_vars

\* C30: the replay memory holds at most 2000 experiences in insertion order;
\* remember on a full memory drops exactly the oldest experience and appends
\* the new one; replay neither adds nor removes experiences.
C30_MemoryBoundedFifo ==
    [][RelayStep =>
          LET old == relay.memory
              new == relay'.memory
          IN  /\ Len(new) <= 2000
              /\ call'.op = "remember" =>
                    /\ new[Len(new)] = call'.experience
                    /\ IF Len(old) < 2000
                       THEN /\ Len(new) = Len(old) + 1
                            /\ \A k \in 1..Len(old) : new[k] = old[k]
                       ELSE /\ Len(new) = 2000
                            /\ \A k \in 1..1999 : new[k] = old[k + 1]
              /\ call'.op = "replay" => new = old]_vars

\* remember on a full memory: the terminal experience that was the oldest is
\* gone and the second oldest is now first
C30_Witness ==
    /\ call.op = "remember"
    /\ ncalls = 2
    /\ Len(relay.memory) = memory_maxlen
    /\ ~relay.memory[1].done
    /\ relay.memory[memory_maxlen] = call.experience

-----------------------------------------------------------------------------
(* Further claims about the battery (specification SpecBattery) *)

\* C23: cycle_count starts at 0, every discharge call adds exactly dt/2 to
\* it whatever power is requested or delivered, and charge leaves it alone:
\* it is always half the sum of dt over the discharge calls.
C23_HalfCyclePerDischarge ==
    /\ battery.cycle_count = Zero
    /\ [][ncalls' = ncalls + 1 =>
             /\ call'.op = "discharge" =>
                   battery'.cycle_count =
                      RAdd(battery.cycle_count, RDiv(call'.dt, Int2Rat(2)))
             /\ call'.op = "charge" =>
                   battery'.cycle_count = battery.cycle_count]_vars

\* a discharge at min_soc delivers 0 kW and still counts half of dt = 1
C23_Witness ==
    /\ call.op = "discharge"
    /\ ncalls = 1
    /\ call.soc_before = battery.min_soc
    /\ call.actual_power = Zero
    /\ call.dt = One
    /\ battery.cycle_count = Rat(1, 2)

-----------------------------------------------------------------------------
(* Further claims about the fault detector (specification SpecFault) *)

\* C28: a new detector has no scaler; the first detect_fault call fits it on
\* the window of that call, also when the window is too short and the
\* sentinel is returned; no later call changes the scaler, so later windows
\* are transformed with the statistics of the first one.
C28_ScalerFittedOnce ==
    /\ detector.scaler = <<>>
    /\ [][/\ (detector.scaler = <<>> /\ ncalls' = ncalls + 1) =>
                detector'.scaler = <<call'.window>>
          /\ detector.scaler # <<>> => detector'.scaler = detector.scaler]_vars

\* a full window is classified after a first call with a 99-sample window:
\* the scaler is still the one fitted on the 99 samples
C28_Witness ==
    /\ ncalls = 2
    /\ Predicted
    /\ call.window = 100
    /\ detector.scaler = <<99>>

-----------------------------------------------------------------------------
(* Further claims about ticks and stability checks (specification SpecStability) *)

\* the sum of the loads' rated powers
RECURSIVE RatedLoad(_)
RatedLoad(ls) == IF ls = <<>> THEN Zero ELSE RAdd(Head(ls).power, RatedLoad(Tail(ls)))

\* C26: current_voltage always equals voltage_level; every tick result has
\* voltage = voltage_level and total_load = the sum of the rated powers of
\* the loads; every stability check reports voltage_pu = 1, and flags neither
\* undervoltage nor overvoltage when undervoltage_threshold <= 1 <=
\* overvoltage_threshold, so that stable is the negation of overcurrent.
C26_VoltageNeverMoves ==
    /\ current_voltage = voltage_level
    /\ i > 0 =>
          /\ power_balance.voltage = voltage_level
          /\ power_balance.total_load = RatedLoad(loads)
    /\ stability.called =>
          /\ stability.raised = "none"
          /\ stability.voltage_pu = One
          /\ (/\ RLe(config.protection.undervoltage_threshold, One)
              /\ RLe(One, config.protection.overvoltage_threshold)) =>
                 /\ ~stability.undervoltage
                 /\ ~stability.overvoltage
                 /\ stability.stable <=> ~stability.overcurrent

\* the same on microgrids whose voltage_level is not 0
C26_NonZeroVoltage == voltage_level # Zero => C26_VoltageNeverMoves

-----------------------------------------------------------------------------
(* Ticks and stability checks on a microgrid with a battery (specification SpecFrame) *)

\* DCMicrogrid.__init__ on configurations with everything enabled
InitFrame ==
    /\ \E soc0 \in {Rat(1, 5), Rat(1, 2)} :
          config = Config(TRUE, TRUE, TRUE, soc0, <<30, 50>>)
    /\ battery = BatteryStorage(config.bess.initial_soc)
    /\ current_voltage = config.system.voltage_level
    /\ grid_connected = FALSE
    /\ metrics = InitialMetrics
    /\ power_balance = NoResult
    /\ i = 0
    /\ pc = "power_balance"
    /\ results = NoResults
    /\ detector = DefaultDetector
    /\ call = NoCall
    /\ ncalls = 0
    /\ stability = NoStability
    /\ anomaly_detector = AnomalyDetector
    /\ relay = DefaultCoordinator

NextFrame == CalculatePowerBalance \/ CheckSystemStability

SpecFrame == InitFrame /\ [][NextFrame]_vars

\* C24: a tick changes, of the microgrid, only soc and cycle_count of the
\* battery and the counters energy_generated (+= total_generation*dt) and
\* energy_consumed (+= total_load*dt); current_voltage, grid_connected,
\* energy_stored, energy_losses, reliability_events and the configuration
\* (voltage_level and the components' parameters) stay; a stability check
\* changes nothing of the microgrid.
C24_TickFrame ==
    [][/\ TickStep =>
             /\ UNCHANGED <<config, current_voltage, grid_connected>>
             /\ battery' = [battery EXCEPT !.soc = battery'.soc,
                                           !.cycle_count = battery'.cycle_count]
             /\ \E dt \in TimeSteps :
                   metrics' =
                      [metrics EXCEPT
                          !.energy_generated =
                              RAdd(@, RMul(power_balance'.total_generation, dt)),
                          !.energy_consumed =
                              RAdd(@, RMul(power_balance'.total_load, dt))]
       /\ stability' # stability =>
             UNCHANGED <<config, battery, current_voltage, grid_connected,
                         metrics, power_balance, i>>]_vars

\* a tick that discharged the battery and moved both counters, followed by
\* a stability check: energy_stored is still 0
C24_Witness ==
    /\ i = 1
    /\ stability.called
    /\ RLt(battery.soc, config.bess.initial_soc)
    /\ RLt(Zero, metrics.energy_generated)
    /\ RLt(Zero, metrics.energy_consumed)
    /\ metrics.energy_stored = Zero
    /\ current_voltage = voltage_level

-----------------------------------------------------------------------------
(* run_simulation: the loop over the ticks (specification SpecLoop) *)

\* number of time steps in sim_data['time']
MaxLoopTicks == 103

\* seq[-n:]
LastN(seq, n) ==
    IF Len(seq) <= n THEN seq ELSE SubSeq(seq, Len(seq) - n + 1, Len(seq))

\* the condition of the detection branch taken from tick index 100 on
ai_detection_due_from_100(cfg, tick) ==
    cfg.protection.ai_protection_enabled /\ tick >= 100

\* the condition of the detection branch, main.py line 142
ai_detection_due(cfg, tick) ==
    cfg.protection.ai_protection_enabled /\ tick > 100

\* np.column_stack of the last 100 recorded voltages and the tick's
\* total_load and net_power repeated min(100, len(results['voltage'])) times
recent_data(res, balance) ==
    LET v == LastN(res.voltage, 100)
    IN  [k \in 1..Len(v) |-> <<v[k], balance.total_load, balance.net_power>>]

\* outputs of the fault model met in the loop: certainly no fault, certainly
\* a short circuit
LoopPredictions ==
    {[k \in 1..Len(fault_types) |-> IF k = c THEN One ELSE Zero] : c \in {1, 2}}

\* run_simulation up to the loop, with AI protection on or off
InitLoop ==
    /\ \E ai \in BOOLEAN :
          config = [Config(TRUE, TRUE, TRUE, Rat(1, 2), <<30, 50>>)
                      EXCEPT !.protection.ai_protection_enabled = ai]
    /\ battery = BatteryStorage(config.bess.initial_soc)
    /\ current_voltage = config.system.voltage_level
    /\ grid_connected = FALSE
    /\ metrics = InitialMetrics
    /\ power_balance = NoResult
    /\ i = 0
    /\ pc = "power_balance"
    /\ results = NoResults
    /\ detector = DefaultDetector
    /\ call = NoCall
    /\ ncalls = 0
    /\ stability = NoStability
    /\ anomaly_detector = AnomalyDetector
    /\ relay = DefaultCoordinator

\* lines 131-136: the tick's power balance, on the sim_data of a calm night
\* with output_interval 3600 s (dt = 1 h)
LoopPowerBalance ==
    /\ pc = "power_balance"
    /\ i < MaxLoopTicks
    /\ LET r == PowerBalance(Zero, Int2Rat(25), Zero, One)
       IN  /\ power_balance' = r.result
           /\ battery' = r.battery
           /\ metrics' = r.metrics
    /\ pc' = "stability"
    /\ UNCHANGED <<config, current_voltage, grid_connected, i, detector, call,
                   ncalls, stability, anomaly_detector, relay, results>>

\* line 139: the stability check on the tick's power balance
LoopCheckStability ==
    /\ pc = "stability"
    /\ stability' = check_system_stability(config.protection, current_voltage,
                                           voltage_level, power_balance)
    /\ pc' = "fault_detection"
    /\ UNCHANGED <<config, battery, current_voltage, grid_connected, metrics,
                   power_balance, i, detector, call, ncalls, anomaly_detector,
                   relay, results>>

\* lines 142-160: with AI protection on and i > 100 the detector is called
\* when the window has 100 rows, and nothing is appended when it has not;
\* otherwise False is appended
LoopFaultDetection ==
    /\ pc = "fault_detection"
    /\ IF ai_detection_due(config, i)
       THEN LET data == recent_data(results, power_balance)
            IN  IF Len(data) = 100
                THEN /\ \E predictions \in LoopPredictions :
                           LET fault_result == FaultResult(detector, predictions)
                           IN  /\ call' = [op |-> "detect_fault", tick |-> i,
                                           data |-> data, window |-> Len(data),
                                           predictions |-> predictions,
                                           result |-> fault_result]
                               /\ results' =
                                     [results EXCEPT !.faults_detected =
                                         Append(@, fault_result.fault_detected)]
                     /\ detector' = preprocess_data(detector, Len(data))
                     /\ ncalls' = ncalls + 1
                ELSE UNCHANGED <<detector, call, ncalls, results>>
       ELSE /\ results' = [results EXCEPT !.faults_detected = Append(@, FALSE)]
            /\ UNCHANGED <<detector, call, ncalls>>
    /\ pc' = "record"
    /\ UNCHANGED <<config, battery, current_voltage, grid_connected, metrics,
                   power_balance, i, stability, anomaly_detector, relay>>

\* lines 163-170: the tick's results are stored, the loop moves on
LoopStoreResults ==
    /\ pc = "record"
    /\ results' =
          [results EXCEPT
              !.time          = Append(@, i * 3600),
              !.pv_power      = Append(@, power_balance.pv_power),
              !.wind_power    = Append(@, power_balance.wind_power),
              !.battery_power = Append(@, power_balance.battery_power),
              !.battery_soc   = Append(@, power_balance.battery_soc),
              !.total_load    = Append(@, power_balance.total_load),
              !.net_power     = Append(@, power_balance.net_power),
              !.voltage       = Append(@, power_balance.voltage)]
    /\ i' = i + 1
    /\ pc' = "power_balance"
    /\ UNCHANGED <<config, battery, current_voltage, grid_connected, metrics,
                   power_balance, detector, call, ncalls, stability,
                   anomaly_detector, relay>>

NextLoop ==
    \/ LoopPowerBalance
    \/ LoopCheckStability
    \/ LoopFaultDetection
    \/ LoopStoreResults

SpecLoop == InitLoop /\ [][NextLoop]_vars

\* the detector calls made when the loop is at tick i before or after the
\* detection statement
DetectionsExpected ==
    IF config.protection.ai_protection_enabled /\ i >= 101
    THEN (i - 101) + (IF pc = "record" THEN 1 ELSE 0)
    ELSE 0

\* C25: each tick runs the power balance, then the stability check, then the
\* fault detection, then the recording of its results, and only then does
\* the next tick start; the battery is written only by the power balance of
\* the tick; the fault detector is invoked for the first time in the tick of
\* index 101 and in every later tick, each time on exactly 100 rows whose
\* voltages are the last 100 recorded ones.
C25_SequentialTicks ==
    /\ [](/\ Len(results.voltage) = i
          /\ Len(results.battery_soc) = i
          /\ ncalls = DetectionsExpected
          /\ (pc = "fault_detection" /\ config.protection.ai_protection_enabled
                 /\ i >= 101) =>
                Len(recent_data(results, power_balance)) = 100
          /\ call.op = "detect_fault" =>
                /\ call.tick >= 101
                /\ call.window = 100)
    /\ [][/\ pc = "power_balance" => pc' = "stability" /\ i' = i
          /\ pc = "stability" =>
                /\ pc' = "fault_detection" /\ i' = i
                /\ stability'.total_current =
                      RAbs(RDiv(RMul(power_balance.net_power, Int2Rat(1000)),
                                current_voltage))
          /\ pc = "fault_detection" => pc' = "record" /\ i' = i
          /\ pc = "record" =>
                /\ pc' = "power_balance" /\ i' = i + 1
                /\ results'.battery_soc[i + 1] = battery.soc
                /\ Len(results'.faults_detected) = i + 1
          /\ battery' # battery => pc = "power_balance"
          /\ power_balance' # power_balance => pc = "power_balance"
          /\ ncalls' = ncalls + 1 =>
                /\ call'.tick = i
                /\ \A k \in 1..100 :
                      call'.data[k][1] = results.voltage[i - 100 + k]]_vars

\* the tick of index 101 has just made the first detection, on 100 rows
C25_Witness ==
    /\ i = 101
    /\ pc = "record"
    /\ ncalls = 1
    /\ call.op = "detect_fault"
    /\ call.window = 100
    /\ Len(results.voltage) = 101
    /\ Len(results.faults_detected) = 102

====
